---- MODULE Spec2Model ----
(***************************************************************************)
(* A model of the httputil package (olivere/httputil): the typed           *)
(* parameter accessors of params.go, the error kinds and the error         *)
(* responder of errors.go, and the JSON helpers and recovery hooks of      *)
(* httputil.go, driven by one handler invocation on one request.           *)
(*                                                                         *)
(* Go strings are TLA+ strings; a character is a string of length 1.       *)
(* Integers wider than 32 bits are kept as canonical decimal                *)
(* strings ("-7", "42", "4294967296"), so that int32/int64 ranges are      *)
(* decided on the digits, as strconv does.                                 *)
(***************************************************************************)
EXTENDS Integers, Sequences, FiniteSets, TLC

\* ------------------------------------------------------------------------
\* Characters and strings
\* ------------------------------------------------------------------------

Ch(s, i) == SubSeq(s, i, i)

Digits == {"0", "1", "2", "3", "4", "5", "6", "7", "8", "9"}

IsDigit(c) == c \in Digits

DigitVal(c) ==
  CASE c = "0" -> 0 [] c = "1" -> 1 [] c = "2" -> 2 [] c = "3" -> 3
    [] c = "4" -> 4 [] c = "5" -> 5 [] c = "6" -> 6 [] c = "7" -> 7
    [] c = "8" -> 8 [] c = "9" -> 9

DigitChar(n) ==
  CASE n = 0 -> "0" [] n = 1 -> "1" [] n = 2 -> "2" [] n = 3 -> "3"
    [] n = 4 -> "4" [] n = 5 -> "5" [] n = 6 -> "6" [] n = 7 -> "7"
    [] n = 8 -> "8" [] n = 9 -> "9"

AllDigits(s) == \A i \in 1..Len(s) : IsDigit(Ch(s, i))

Drop(s, n) == SubSeq(s, n + 1, Len(s))

Take(s, n) == SubSeq(s, 1, n)

HasPrefix(s, p) == Len(s) >= Len(p) /\ Take(s, Len(p)) = p

\* The digits of s without leading zeros; "0" when nothing else is left.
RECURSIVE StripZeros(_)
StripZeros(s) ==
  IF Len(s) > 1 /\ Ch(s, 1) = "0" THEN StripZeros(Drop(s, 1)) ELSE s

\* a < b for two digit strings of the same length
RECURSIVE DigitsLess(_, _)
DigitsLess(a, b) ==
  IF Len(a) = 0 THEN FALSE
  ELSE IF Ch(a, 1) # Ch(b, 1) THEN DigitVal(Ch(a, 1)) < DigitVal(Ch(b, 1))
  ELSE DigitsLess(Drop(a, 1), Drop(b, 1))

\* a > b for two digit strings without leading zeros
MagnitudeGreater(a, b) ==
  \/ Len(a) > Len(b)
  \/ Len(a) = Len(b) /\ DigitsLess(b, a)

\* The value of a short digit string as a number.
RECURSIVE DigitsToNat(_)
DigitsToNat(s) ==
  IF Len(s) = 0 THEN 0
  ELSE 10 * DigitsToNat(Take(s, Len(s) - 1)) + DigitVal(Ch(s, Len(s)))

\* strconv.Itoa for a number of at most 32 bits.
RECURSIVE NatToDigits(_)
NatToDigits(n) ==
  IF n < 10 THEN DigitChar(n) ELSE NatToDigits(n \div 10) \o DigitChar(n % 10)

Itoa(n) == IF n < 0 THEN "-" \o NatToDigits(0 - n) ELSE NatToDigits(n)

\* ------------------------------------------------------------------------
\* strconv, as called by the accessors
\* ------------------------------------------------------------------------

\* strconv.IntSize on the 64-bit platforms the package is built for.
IntSize == 64

\* strconv.ParseBool: exactly these twelve tokens are accepted.
ParseBool(str) ==
  IF str \in {"1", "t", "T", "TRUE", "true", "True"} THEN [ok |-> TRUE, v |-> TRUE]
  ELSE IF str \in {"0", "f", "F", "FALSE", "false", "False"} THEN [ok |-> TRUE, v |-> FALSE]
  ELSE [ok |-> FALSE, v |-> FALSE]

\* 2^(bitSize-1), the first magnitude a signed integer of that size cannot hold.
IntCutoff(bitSize) ==
  CASE bitSize = 32 -> "2147483648"
    [] bitSize = 64 -> "9223372036854775808"

\* strconv.ParseInt(s, 10, bitSize): optional sign, then decimal digits only;
\* a magnitude outside the range of bitSize is an error (ErrRange).
ParseInt(s, bitSize) ==
  LET neg  == Len(s) > 0 /\ Ch(s, 1) = "-"
      sign == Len(s) > 0 /\ Ch(s, 1) \in {"+", "-"}
      body == IF sign THEN Drop(s, 1) ELSE s
      mag  == StripZeros(body)
      cut  == IntCutoff(IF bitSize = 0 THEN IntSize ELSE bitSize)
  IN  IF Len(body) = 0 \/ ~AllDigits(body) THEN [ok |-> FALSE, v |-> "0"]
      ELSE IF neg /\ MagnitudeGreater(mag, cut) THEN [ok |-> FALSE, v |-> "0"]
      ELSE IF ~neg /\ ~MagnitudeGreater(cut, mag) THEN [ok |-> FALSE, v |-> "0"]
      ELSE [ok |-> TRUE, v |-> IF neg /\ mag # "0" THEN "-" \o mag ELSE mag]

\* strconv.Atoi(s) is ParseInt(s, 10, 0).
Atoi(s) == ParseInt(s, 0)

\* The longest prefix of s made of digits.
RECURSIVE LeadingDigits(_)
LeadingDigits(s) ==
  IF Len(s) > 0 /\ IsDigit(Ch(s, 1)) THEN Ch(s, 1) \o LeadingDigits(Drop(s, 1)) ELSE ""

RECURSIVE StripTrailingZeros(_)
StripTrailingZeros(s) ==
  IF Len(s) > 1 /\ Ch(s, Len(s)) = "0" THEN StripTrailingZeros(Take(s, Len(s) - 1)) ELSE s

\* a >= b for two digit strings read as decimal fractions 0.a and 0.b
RECURSIVE FracGeq(_, _)
FracGeq(a, b) ==
  IF Len(a) = 0 /\ Len(b) = 0 THEN TRUE
  ELSE LET x == IF Len(a) = 0 THEN 0 ELSE DigitVal(Ch(a, 1))
           y == IF Len(b) = 0 THEN 0 ELSE DigitVal(Ch(b, 1))
       IN  IF x # y THEN x > y
           ELSE FracGeq(IF Len(a) = 0 THEN a ELSE Drop(a, 1),
                        IF Len(b) = 0 THEN b ELSE Drop(b, 1))

\* The decimal order (value = 0.mant * 10^order) from which a float of
\* bitSize overflows, and the digits of the overflow threshold.
FloatMaxOrder(bitSize) == IF bitSize = 32 THEN 39 ELSE 309

FloatMaxDigits(bitSize) ==
  IF bitSize = 32 THEN "34028235677973366" ELSE "17976931348623158079"

ZeroFloat == [cls |-> "num", neg |-> FALSE, mant |-> "0", exp |-> 0]

\* strconv.ParseFloat(s, bitSize) on decimal notation: optional sign, digits
\* with an optional point, an optional exponent; NaN and the infinities by
\* name.  The value is kept as sign * mant * 10^exp with mant normalised;
\* a magnitude beyond the largest finite float of bitSize is an error.
\* The scan is written as one operator per part of the number.
FloatFail == [ok |-> FALSE, v |-> ZeroFloat]

\* The range check on the normalised mantissa and exponent.
FloatRange(neg, mant, exp, bitSize) ==
  IF mant = "0" THEN [ok |-> TRUE, v |-> ZeroFloat]
  ELSE IF Len(mant) + exp > FloatMaxOrder(bitSize) THEN FloatFail
  ELSE IF Len(mant) + exp = FloatMaxOrder(bitSize) /\ FracGeq(mant, FloatMaxDigits(bitSize))
    THEN FloatFail
  ELSE [ok |-> TRUE, v |-> [cls |-> "num", neg |-> neg, mant |-> mant, exp |-> exp]]

\* all: the digits of the number without leading zeros; fpLen of them stood
\* after the point; e is the exponent written.
FloatNormal(neg, all, fpLen, e, bitSize) ==
  FloatRange(neg, StripTrailingZeros(all),
             e - fpLen + (Len(all) - Len(StripTrailingZeros(all))), bitSize)

FloatValue(neg, digits, fpLen, e, bitSize) ==
  FloatNormal(neg, StripZeros(digits), fpLen, e, bitSize)

\* The exponent written with the digits edS (no leading zeros); an exponent
\* of more than four digits is beyond every range.
FloatExp(eneg, edS) ==
  IF Len(edS) > 4 THEN (IF eneg THEN -10000 ELSE 10000)
  ELSE IF eneg THEN 0 - DigitsToNat(edS) ELSE DigitsToNat(edS)

\* t: the text after the sign of the exponent, ed: its leading digits.
FloatExpDigits(neg, ip, fp, eneg, t, ed, bitSize) ==
  IF Len(ed) = 0 \/ Len(ed) < Len(t) THEN FloatFail
  ELSE FloatValue(neg, ip \o fp, Len(fp), FloatExp(eneg, StripZeros(ed)), bitSize)

\* r3: the text after the letter e.
FloatExpSign(neg, ip, fp, r3, bitSize) ==
  IF Len(r3) > 0 /\ Ch(r3, 1) \in {"+", "-"}
  THEN FloatExpDigits(neg, ip, fp, Ch(r3, 1) = "-", Drop(r3, 1), LeadingDigits(Drop(r3, 1)), bitSize)
  ELSE FloatExpDigits(neg, ip, fp, FALSE, r3, LeadingDigits(r3), bitSize)

\* ip, fp: the digits before and after the point, r2: the text after them.
FloatMantissa(neg, ip, fp, r2, bitSize) ==
  IF Len(ip) + Len(fp) = 0 THEN FloatFail
  ELSE IF Len(r2) > 0 /\ Ch(r2, 1) \in {"e", "E"} THEN FloatExpSign(neg, ip, fp, Drop(r2, 1), bitSize)
  ELSE IF Len(r2) > 0 THEN FloatFail
  ELSE FloatValue(neg, ip \o fp, Len(fp), 0, bitSize)

\* t: the text after the point, fp: its leading digits.
FloatFraction(neg, ip, t, fp, bitSize) ==
  FloatMantissa(neg, ip, fp, Drop(t, Len(fp)), bitSize)

\* r1: the text after the digits before the point.
FloatPoint(neg, ip, r1, bitSize) ==
  IF Len(r1) > 0 /\ Ch(r1, 1) = "."
  THEN FloatFraction(neg, ip, Drop(r1, 1), LeadingDigits(Drop(r1, 1)), bitSize)
  ELSE FloatMantissa(neg, ip, "", r1, bitSize)

FloatInteger(neg, body, ip, bitSize) == FloatPoint(neg, ip, Drop(body, Len(ip)), bitSize)

\* body: the text after the sign.
FloatSigned(neg, body, bitSize) ==
  IF body \in {"inf", "Inf", "INF", "infinity", "Infinity"}
  THEN [ok |-> TRUE, v |-> [cls |-> "inf", neg |-> neg, mant |-> "0", exp |-> 0]]
  ELSE FloatInteger(neg, body, LeadingDigits(body), bitSize)

ParseFloat(s, bitSize) ==
  IF s \in {"nan", "NaN", "NAN"}
  THEN [ok |-> TRUE, v |-> [cls |-> "nan", neg |-> FALSE, mant |-> "0", exp |-> 0]]
  ELSE IF Len(s) > 0 /\ Ch(s, 1) \in {"+", "-"}
  THEN FloatSigned(Ch(s, 1) = "-", Drop(s, 1), bitSize)
  ELSE FloatSigned(FALSE, s, bitSize)

\* strconv.Quote, the %q verb of fmt: the string in double quotes, with the
\* quote, the backslash and the control characters escaped.
RECURSIVE QuoteBody(_)
QuoteBody(s) ==
  IF Len(s) = 0 THEN ""
  ELSE LET c == Ch(s, 1)
           q == CASE c = "\"" -> "\\\""
                  [] c = "\\" -> "\\\\"
                  [] c = "\n" -> "\\n"
                  [] c = "\t" -> "\\t"
                  [] OTHER    -> c
       IN  q \o QuoteBody(Drop(s, 1))

Quote(s) == "\"" \o QuoteBody(s) \o "\""

\* ------------------------------------------------------------------------
\* package time, as called by the accessors
\* ------------------------------------------------------------------------

\* A time.Time as its calendar fields (UTC).  The zero time.Time is
\* January 1 of year 1.
ZeroTime == [Y |-> 1, M |-> 1, D |-> 1, h |-> 0, m |-> 0, s |-> 0]

IsLeap(y) == y % 4 = 0 /\ (y % 100 # 0 \/ y % 400 = 0)

DaysIn(mo, y) ==
  IF mo = 2 THEN (IF IsLeap(y) THEN 29 ELSE 28)
  ELSE IF mo \in {4, 6, 9, 11} THEN 30 ELSE 31

\* The layout elements this model reads: the reference year, month, day,
\* hour, minute and second in their zero-padded forms.
LayoutElems == <<"2006", "01", "02", "15", "04", "05">>

ElemAt(layout) ==
  IF \E i \in 1..Len(LayoutElems) : HasPrefix(layout, LayoutElems[i])
  THEN LayoutElems[CHOOSE i \in 1..Len(LayoutElems) : HasPrefix(layout, LayoutElems[i])]
  ELSE ""

\* The field of acc that layout element el names, set to x.
SetField(acc, el, x) ==
  CASE el = "2006" -> [acc EXCEPT !.Y = x]
    [] el = "01"   -> [acc EXCEPT !.M = x]
    [] el = "02"   -> [acc EXCEPT !.D = x]
    [] el = "15"   -> [acc EXCEPT !.h = x]
    [] el = "04"   -> [acc EXCEPT !.m = x]
    [] el = "05"   -> [acc EXCEPT !.s = x]

\* time.Parse(layout, value): walks the layout; an element consumes as many
\* digits as it is wide, any other layout character must be matched
\* literally; text left over, a missing digit or a field out of range is an
\* error.  Fields the layout does not name keep year 0, January 1, 00:00:00.
RECURSIVE ParseFields(_, _, _)
ParseElem(el, layout, value, acc) ==
  IF el = ""
  THEN IF Len(value) > 0 /\ Ch(value, 1) = Ch(layout, 1)
       THEN ParseFields(Drop(layout, 1), Drop(value, 1), acc)
       ELSE [ok |-> FALSE, v |-> acc]
  ELSE IF Len(value) < Len(el) \/ ~AllDigits(Take(value, Len(el)))
       THEN [ok |-> FALSE, v |-> acc]
       ELSE ParseFields(Drop(layout, Len(el)), Drop(value, Len(el)),
                        SetField(acc, el, DigitsToNat(Take(value, Len(el)))))

ParseFields(layout, value, acc) ==
  IF Len(layout) = 0
  THEN [ok |-> Len(value) = 0, v |-> acc]
  ELSE ParseElem(ElemAt(layout), layout, value, acc)

\* The range checks of time.Parse on the fields it has read.
InRange(t) ==
  /\ t.M \in 1..12
  /\ t.D >= 1 /\ t.D <= DaysIn(t.M, t.Y)
  /\ t.h \in 0..23 /\ t.m \in 0..59 /\ t.s \in 0..59

TimeChecked(p) ==
  IF p.ok /\ InRange(p.v) THEN [ok |-> TRUE, v |-> p.v] ELSE [ok |-> FALSE, v |-> ZeroTime]

TimeParse(layout, value) ==
  TimeChecked(ParseFields(layout, value, [Y |-> 0, M |-> 1, D |-> 1, h |-> 0, m |-> 0, s |-> 0]))

\* A time.Duration as sign, whole seconds and nanoseconds below one second.
ZeroDuration == [neg |-> FALSE, sec |-> 0, ns |-> 0]

NsPerSec == 1000000000

\* unitMap of package time, each unit as (seconds, nanoseconds).
UnitNames == {"ns", "us", "ms", "s", "m", "h"}

UnitOf(u) ==
  CASE u = "ns" -> [sec |-> 0, ns |-> 1]
    [] u = "us" -> [sec |-> 0, ns |-> 1000]
    [] u = "ms" -> [sec |-> 0, ns |-> 1000000]
    [] u = "s"  -> [sec |-> 1, ns |-> 0]
    [] u = "m"  -> [sec |-> 60, ns |-> 0]
    [] u = "h"  -> [sec |-> 3600, ns |-> 0]

\* The longest prefix of s that holds neither a digit nor a point: the unit.
RECURSIVE LeadingUnit(_)
LeadingUnit(s) ==
  IF Len(s) > 0 /\ ~IsDigit(Ch(s, 1)) /\ Ch(s, 1) # "."
  THEN Ch(s, 1) \o LeadingUnit(Drop(s, 1)) ELSE ""

RECURSIVE Pow10(_)
Pow10(n) == IF n = 0 THEN 1 ELSE 10 * Pow10(n - 1)

\* Seconds and nanoseconds with the nanoseconds carried into the seconds.
Carry(sec, ns) == [sec |-> sec + ns \div NsPerSec, ns |-> ns % NsPerSec]

\* One segment v.f<unit> in seconds and nanoseconds: v * unit, plus the
\* fraction f / scale of the unit, truncated to a nanosecond.  (The int64
\* overflow checks of the library lie beyond the numbers modelled here.)
SegmentOf(v, f, scale, un) ==
  IF un.ns = 0
  THEN Carry(v * un.sec + (f * un.sec) \div scale,
             ((f * un.sec) % scale) * (NsPerSec \div scale))
  ELSE Carry(v \div (NsPerSec \div un.ns),
             (v % (NsPerSec \div un.ns)) * un.ns
             + (IF un.ns >= scale THEN f * (un.ns \div scale)
                                  ELSE f \div (scale \div un.ns)))

Segment(vd, fd, u) ==
  SegmentOf(DigitsToNat(vd), DigitsToNat(fd), Pow10(Len(fd)), UnitOf(u))

\* The loop of time.ParseDuration over ([0-9]*(\.[0-9]*)?[a-z]+)+, one
\* operator per step of an iteration: the integer digits, the fraction,
\* the unit, the running sum.
RECURSIVE ParseSegments(_, _)
SegmentAdd(g, rest, acc) ==
  ParseSegments(rest, Carry(acc.sec + g.sec, acc.ns + g.ns))

SegmentUnit(vd, fd, u, r2, acc) ==
  IF Len(vd) = 0 /\ Len(fd) = 0 THEN [ok |-> FALSE, v |-> acc]
  ELSE IF Len(u) = 0 \/ u \notin UnitNames THEN [ok |-> FALSE, v |-> acc]
  ELSE SegmentAdd(Segment(vd, fd, u), Drop(r2, Len(u)), acc)

SegmentFraction(vd, fd, r2, acc) == SegmentUnit(vd, fd, LeadingUnit(r2), r2, acc)

SegmentPoint(vd, r1, acc) ==
  IF Len(r1) > 0 /\ Ch(r1, 1) = "."
  THEN SegmentFraction(vd, LeadingDigits(Drop(r1, 1)),
                       Drop(r1, 1 + Len(LeadingDigits(Drop(r1, 1)))), acc)
  ELSE SegmentFraction(vd, "", r1, acc)

SegmentInteger(vd, s, acc) == SegmentPoint(vd, Drop(s, Len(vd)), acc)

ParseSegments(s, acc) ==
  IF Len(s) = 0 THEN [ok |-> TRUE, v |-> acc]
  ELSE IF ~(Ch(s, 1) = "." \/ IsDigit(Ch(s, 1))) THEN [ok |-> FALSE, v |-> acc]
  ELSE SegmentInteger(LeadingDigits(s), s, acc)

\* time.ParseDuration(s): an optional sign; "0" alone is zero; otherwise one
\* or more segments, each a decimal number with a unit.
DurationSigned_NoZero(neg, body, p) ==
  IF body = "" \/ ~p.ok THEN [ok |-> FALSE, v |-> ZeroDuration]
  ELSE [ok |-> TRUE,
        v  |-> [neg |-> neg /\ (p.v.sec # 0 \/ p.v.ns # 0), sec |-> p.v.sec, ns |-> p.v.ns]]

DurationSigned(neg, body, p) ==
  IF body = "0" THEN [ok |-> TRUE, v |-> ZeroDuration]
  ELSE IF body = "" \/ ~p.ok THEN [ok |-> FALSE, v |-> ZeroDuration]
  ELSE [ok |-> TRUE,
        v  |-> [neg |-> neg /\ (p.v.sec # 0 \/ p.v.ns # 0), sec |-> p.v.sec, ns |-> p.v.ns]]

DurationBody(neg, body) == DurationSigned(neg, body, ParseSegments(body, [sec |-> 0, ns |-> 0]))

ParseDuration(s) ==
  IF Len(s) > 0 /\ Ch(s, 1) \in {"+", "-"}
  THEN DurationBody(Ch(s, 1) = "-", Drop(s, 1))
  ELSE DurationBody(FALSE, s)

\* ------------------------------------------------------------------------
\* net/http status codes and reason phrases
\* ------------------------------------------------------------------------

StatusOK == 200
StatusBadRequest == 400
StatusUnauthorized == 401
StatusPaymentRequired == 402
StatusForbidden == 403
StatusNotFound == 404
StatusMethodNotAllowed == 405
StatusNotAcceptable == 406
StatusProxyAuthRequired == 407
StatusRequestTimeout == 408
StatusConflict == 409
StatusGone == 410
StatusLengthRequired == 411
StatusPreconditionFailed == 412
StatusRequestEntityTooLarge == 413
StatusRequestURITooLong == 414
StatusUnsupportedMediaType == 415
StatusRequestedRangeNotSatisfiable == 416
StatusExpectationFailed == 417
StatusTeapot == 418
StatusMisdirectedRequest == 421
StatusUnprocessableEntity == 422
StatusLocked == 423
StatusFailedDependency == 424
StatusTooEarly == 425
StatusUpgradeRequired == 426
StatusPreconditionRequired == 428
StatusTooManyRequests == 429
StatusRequestHeaderFieldsTooLarge == 431
StatusUnavailableForLegalReasons == 451
StatusInternalServerError == 500
StatusNotImplemented == 501
StatusBadGateway == 502
StatusServiceUnavailable == 503
StatusGatewayTimeout == 504
StatusHTTPVersionNotSupported == 505
StatusVariantAlsoNegotiates == 506
StatusInsufficientStorage == 507
StatusLoopDetected == 508
StatusNotExtended == 510
StatusNetworkAuthenticationRequired == 511

\* http.StatusText: the reason phrase of a status code, "" for a code it
\* does not know.
StatusText(code) ==
  CASE code = 200 -> "OK"
    [] code = 400 -> "Bad Request"
    [] code = 401 -> "Unauthorized"
    [] code = 402 -> "Payment Required"
    [] code = 403 -> "Forbidden"
    [] code = 404 -> "Not Found"
    [] code = 405 -> "Method Not Allowed"
    [] code = 406 -> "Not Acceptable"
    [] code = 407 -> "Proxy Authentication Required"
    [] code = 408 -> "Request Timeout"
    [] code = 409 -> "Conflict"
    [] code = 410 -> "Gone"
    [] code = 411 -> "Length Required"
    [] code = 412 -> "Precondition Failed"
    [] code = 413 -> "Request Entity Too Large"
    [] code = 414 -> "Request URI Too Long"
    [] code = 415 -> "Unsupported Media Type"
    [] code = 416 -> "Requested Range Not Satisfiable"
    [] code = 417 -> "Expectation Failed"
    [] code = 418 -> "I'm a teapot"
    [] code = 421 -> "Misdirected Request"
    [] code = 422 -> "Unprocessable Entity"
    [] code = 423 -> "Locked"
    [] code = 424 -> "Failed Dependency"
    [] code = 425 -> "Too Early"
    [] code = 426 -> "Upgrade Required"
    [] code = 428 -> "Precondition Required"
    [] code = 429 -> "Too Many Requests"
    [] code = 431 -> "Request Header Fields Too Large"
    [] code = 451 -> "Unavailable For Legal Reasons"
    [] code = 500 -> "Internal Server Error"
    [] code = 501 -> "Not Implemented"
    [] code = 502 -> "Bad Gateway"
    [] code = 503 -> "Service Unavailable"
    [] code = 504 -> "Gateway Timeout"
    [] code = 505 -> "HTTP Version Not Supported"
    [] code = 506 -> "Variant Also Negotiates"
    [] code = 507 -> "Insufficient Storage"
    [] code = 508 -> "Loop Detected"
    [] code = 510 -> "Not Extended"
    [] code = 511 -> "Network Authentication Required"
    [] OTHER -> ""

\* ------------------------------------------------------------------------
\* errors.go: the error kinds
\* ------------------------------------------------------------------------

\* A nil error.
Nil == [kind |-> "nil"]

\* errors.New(s) and a bare Go string, the two payloads without capabilities.
ErrorString(s) == [kind |-> "errorString", s |-> s]

GoString(s) == [kind |-> "string", s |-> s]

\* fmt.Errorf with the verb %w: an error of the text s that wraps err and has
\* the methods Error and Unwrap only.
WrapError(s, err) == [kind |-> "wrapError", s |-> s, err |-> err]

\* A composite literal K{Message: m, Details: d, Err: c} of a status-specific kind.
HTTPError(kind, m, d, c) == [kind |-> kind, Message |-> m, Details |-> d, Err |-> c]

\* The generic Error{Code, Message, Details, Err}.
GenericError(code, m, d, c) ==
  [kind |-> "Error", Code |-> code, Message |-> m, Details |-> d, Err |-> c]

Error_Error(e) ==
  IF e.Message # "" THEN e.Message
  ELSE IF StatusText(e.Code) # "" THEN StatusText(e.Code)
  ELSE "Unknown error"

Error_ErrorDetails(e) == e.Details

Error_Unwrap(e) == e.Err

Error_HTTPCode(e) == e.Code

BadRequestError_HTTPCode_Server(e) == StatusInternalServerError

BadRequestError_HTTPCode(e) == StatusBadRequest

BadRequestError_Error(e) ==
  IF e.Message # "" THEN e.Message ELSE StatusText(BadRequestError_HTTPCode(e))

BadRequestError_Unwrap(e) == e.Err

BadRequestError_ErrorDetails(e) == e.Details

UnauthorizedError_HTTPCode(e) == StatusUnauthorized

UnauthorizedError_Error(e) ==
  IF e.Message # "" THEN e.Message ELSE StatusText(UnauthorizedError_HTTPCode(e))

UnauthorizedError_Unwrap(e) == e.Err

UnauthorizedError_ErrorDetails(e) == e.Details

PaymentRequiredError_HTTPCode(e) == StatusPaymentRequired

PaymentRequiredError_Error(e) ==
  IF e.Message # "" THEN e.Message ELSE StatusText(PaymentRequiredError_HTTPCode(e))

PaymentRequiredError_Unwrap(e) == e.Err

PaymentRequiredError_ErrorDetails(e) == e.Details

ForbiddenError_HTTPCode(e) == StatusForbidden

ForbiddenError_Error(e) ==
  IF e.Message # "" THEN e.Message ELSE StatusText(ForbiddenError_HTTPCode(e))

ForbiddenError_Unwrap(e) == e.Err

ForbiddenError_ErrorDetails(e) == e.Details

NotFoundError_HTTPCode(e) == StatusNotFound

NotFoundError_Error_Phrase(e) == StatusText(NotFoundError_HTTPCode(e))

NotFoundError_Error(e) ==
  IF e.Message # "" THEN e.Message ELSE StatusText(NotFoundError_HTTPCode(e))

NotFoundError_Unwrap(e) == e.Err

NotFoundError_ErrorDetails(e) == e.Details

MethodNotAllowedError_HTTPCode(e) == StatusMethodNotAllowed

MethodNotAllowedError_Error(e) ==
  IF e.Message # "" THEN e.Message ELSE StatusText(MethodNotAllowedError_HTTPCode(e))

MethodNotAllowedError_Unwrap(e) == e.Err

MethodNotAllowedError_ErrorDetails(e) == e.Details

NotAcceptableError_HTTPCode(e) == StatusNotAcceptable

NotAcceptableError_Error(e) ==
  IF e.Message # "" THEN e.Message ELSE StatusText(NotAcceptableError_HTTPCode(e))

NotAcceptableError_Unwrap(e) == e.Err

NotAcceptableError_ErrorDetails(e) == e.Details

ProxyAuthRequiredError_HTTPCode(e) == StatusProxyAuthRequired

ProxyAuthRequiredError_Error(e) ==
  IF e.Message # "" THEN e.Message ELSE StatusText(ProxyAuthRequiredError_HTTPCode(e))

ProxyAuthRequiredError_Unwrap(e) == e.Err

ProxyAuthRequiredError_ErrorDetails(e) == e.Details

RequestTimeoutError_HTTPCode(e) == StatusRequestTimeout

RequestTimeoutError_Error(e) ==
  IF e.Message # "" THEN e.Message ELSE StatusText(RequestTimeoutError_HTTPCode(e))

RequestTimeoutError_Unwrap(e) == e.Err

RequestTimeoutError_ErrorDetails(e) == e.Details

ConflictError_HTTPCode(e) == StatusConflict

ConflictError_Error(e) ==
  IF e.Message # "" THEN e.Message ELSE StatusText(ConflictError_HTTPCode(e))

ConflictError_Unwrap(e) == e.Err

ConflictError_ErrorDetails(e) == e.Details

GoneError_HTTPCode(e) == StatusGone

GoneError_Error(e) ==
  IF e.Message # "" THEN e.Message ELSE StatusText(GoneError_HTTPCode(e))

GoneError_Unwrap(e) == e.Err

GoneError_ErrorDetails(e) == e.Details

LengthRequiredError_HTTPCode(e) == StatusLengthRequired

LengthRequiredError_Error(e) ==
  IF e.Message # "" THEN e.Message ELSE StatusText(LengthRequiredError_HTTPCode(e))

LengthRequiredError_Unwrap(e) == e.Err

LengthRequiredError_ErrorDetails(e) == e.Details

PreconditionFailedError_HTTPCode(e) == StatusPreconditionFailed

PreconditionFailedError_Error(e) ==
  IF e.Message # "" THEN e.Message ELSE StatusText(PreconditionFailedError_HTTPCode(e))

PreconditionFailedError_Unwrap(e) == e.Err

PreconditionFailedError_ErrorDetails(e) == e.Details

RequestEntityTooLargeError_HTTPCode(e) == StatusRequestEntityTooLarge

RequestEntityTooLargeError_Error(e) ==
  IF e.Message # "" THEN e.Message ELSE StatusText(RequestEntityTooLargeError_HTTPCode(e))

RequestEntityTooLargeError_Unwrap(e) == e.Err

RequestEntityTooLargeError_ErrorDetails(e) == e.Details

RequestURITooLongError_HTTPCode(e) == StatusRequestURITooLong

RequestURITooLongError_Error(e) ==
  IF e.Message # "" THEN e.Message ELSE StatusText(RequestURITooLongError_HTTPCode(e))

RequestURITooLongError_Unwrap(e) == e.Err

RequestURITooLongError_ErrorDetails(e) == e.Details

UnsupportedMediaTypeError_HTTPCode(e) == StatusUnsupportedMediaType

UnsupportedMediaTypeError_Error(e) ==
  IF e.Message # "" THEN e.Message ELSE StatusText(UnsupportedMediaTypeError_HTTPCode(e))

UnsupportedMediaTypeError_Unwrap(e) == e.Err

UnsupportedMediaTypeError_ErrorDetails(e) == e.Details

RequestedRangeNotSatisfiableError_HTTPCode(e) == StatusRequestedRangeNotSatisfiable

RequestedRangeNotSatisfiableError_Error(e) ==
  IF e.Message # "" THEN e.Message ELSE StatusText(RequestedRangeNotSatisfiableError_HTTPCode(e))

RequestedRangeNotSatisfiableError_Unwrap(e) == e.Err

RequestedRangeNotSatisfiableError_ErrorDetails(e) == e.Details

ExpectationFailedError_HTTPCode(e) == StatusExpectationFailed

ExpectationFailedError_Error(e) ==
  IF e.Message # "" THEN e.Message ELSE StatusText(ExpectationFailedError_HTTPCode(e))

ExpectationFailedError_Unwrap(e) == e.Err

ExpectationFailedError_ErrorDetails(e) == e.Details

TeapotError_HTTPCode(e) == StatusTeapot

TeapotError_Error(e) ==
  IF e.Message # "" THEN e.Message ELSE StatusText(TeapotError_HTTPCode(e))

TeapotError_Unwrap_None(e) == Nil

TeapotError_Unwrap(e) == e.Err

TeapotError_ErrorDetails(e) == e.Details

MisdirectedRequestError_HTTPCode(e) == StatusMisdirectedRequest

MisdirectedRequestError_Error(e) ==
  IF e.Message # "" THEN e.Message ELSE StatusText(MisdirectedRequestError_HTTPCode(e))

MisdirectedRequestError_Unwrap(e) == e.Err

MisdirectedRequestError_ErrorDetails(e) == e.Details

UnprocessableEntityError_HTTPCode(e) == StatusUnprocessableEntity

UnprocessableEntityError_Error(e) ==
  IF e.Message # "" THEN e.Message ELSE StatusText(UnprocessableEntityError_HTTPCode(e))

UnprocessableEntityError_Unwrap(e) == e.Err

UnprocessableEntityError_ErrorDetails(e) == e.Details

LockedError_HTTPCode(e) == StatusLocked

LockedError_Error(e) ==
  IF e.Message # "" THEN e.Message ELSE StatusText(LockedError_HTTPCode(e))

LockedError_Unwrap(e) == e.Err

LockedError_ErrorDetails(e) == e.Details

FailedDependencyError_HTTPCode(e) == StatusFailedDependency

FailedDependencyError_Error(e) ==
  IF e.Message # "" THEN e.Message ELSE StatusText(FailedDependencyError_HTTPCode(e))

FailedDependencyError_Unwrap(e) == e.Err

FailedDependencyError_ErrorDetails(e) == e.Details

TooEarlyError_HTTPCode(e) == StatusTooEarly

TooEarlyError_Error(e) ==
  IF e.Message # "" THEN e.Message ELSE StatusText(TooEarlyError_HTTPCode(e))

TooEarlyError_Unwrap(e) == e.Err

TooEarlyError_ErrorDetails(e) == e.Details

UpgradeRequiredError_HTTPCode(e) == StatusUpgradeRequired

UpgradeRequiredError_Error(e) ==
  IF e.Message # "" THEN e.Message ELSE StatusText(UpgradeRequiredError_HTTPCode(e))

UpgradeRequiredError_Unwrap(e) == e.Err

UpgradeRequiredError_ErrorDetails(e) == e.Details

PreconditionRequiredError_HTTPCode(e) == StatusPreconditionRequired

PreconditionRequiredError_Error(e) ==
  IF e.Message # "" THEN e.Message ELSE StatusText(PreconditionRequiredError_HTTPCode(e))

PreconditionRequiredError_Unwrap(e) == e.Err

PreconditionRequiredError_ErrorDetails(e) == e.Details

TooManyRequestsError_HTTPCode(e) == StatusTooManyRequests

TooManyRequestsError_Error(e) ==
  IF e.Message # "" THEN e.Message ELSE StatusText(TooManyRequestsError_HTTPCode(e))

TooManyRequestsError_Unwrap(e) == e.Err

TooManyRequestsError_ErrorDetails(e) == e.Details

RequestHeaderFieldsTooLargeError_HTTPCode(e) == StatusRequestHeaderFieldsTooLarge

RequestHeaderFieldsTooLargeError_Error(e) ==
  IF e.Message # "" THEN e.Message ELSE StatusText(RequestHeaderFieldsTooLargeError_HTTPCode(e))

RequestHeaderFieldsTooLargeError_Unwrap(e) == e.Err

RequestHeaderFieldsTooLargeError_ErrorDetails(e) == e.Details

UnavailableForLegalReasonsError_HTTPCode(e) == StatusUnavailableForLegalReasons

UnavailableForLegalReasonsError_Error(e) ==
  IF e.Message # "" THEN e.Message ELSE StatusText(UnavailableForLegalReasonsError_HTTPCode(e))

UnavailableForLegalReasonsError_Unwrap(e) == e.Err

UnavailableForLegalReasonsError_ErrorDetails(e) == e.Details

InternalServerError_HTTPCode(e) == StatusInternalServerError

InternalServerError_Error(e) ==
  IF e.Message # "" THEN e.Message ELSE StatusText(InternalServerError_HTTPCode(e))

InternalServerError_Unwrap(e) == e.Err

InternalServerError_ErrorDetails(e) == e.Details

NotImplementedError_HTTPCode(e) == StatusNotImplemented

NotImplementedError_Error(e) ==
  IF e.Message # "" THEN e.Message ELSE StatusText(NotImplementedError_HTTPCode(e))

NotImplementedError_Unwrap(e) == e.Err

NotImplementedError_ErrorDetails(e) == e.Details

BadGatewayError_HTTPCode(e) == StatusBadGateway

BadGatewayError_Error(e) ==
  IF e.Message # "" THEN e.Message ELSE StatusText(BadGatewayError_HTTPCode(e))

BadGatewayError_Unwrap(e) == e.Err

BadGatewayError_ErrorDetails(e) == e.Details

ServiceUnavailableError_HTTPCode(e) == StatusServiceUnavailable

ServiceUnavailableError_Error(e) ==
  IF e.Message # "" THEN e.Message ELSE StatusText(ServiceUnavailableError_HTTPCode(e))

ServiceUnavailableError_Unwrap(e) == e.Err

ServiceUnavailableError_ErrorDetails(e) == e.Details

GatewayTimeoutError_HTTPCode(e) == StatusGatewayTimeout

GatewayTimeoutError_Error(e) ==
  IF e.Message # "" THEN e.Message ELSE StatusText(GatewayTimeoutError_HTTPCode(e))

GatewayTimeoutError_Unwrap(e) == e.Err

GatewayTimeoutError_ErrorDetails(e) == e.Details

HTTPVersionNotSupportedError_HTTPCode(e) == StatusHTTPVersionNotSupported

HTTPVersionNotSupportedError_Error(e) ==
  IF e.Message # "" THEN e.Message ELSE StatusText(HTTPVersionNotSupportedError_HTTPCode(e))

HTTPVersionNotSupportedError_Unwrap(e) == e.Err

HTTPVersionNotSupportedError_ErrorDetails(e) == e.Details

VariantAlsoNegotiatesError_HTTPCode(e) == StatusVariantAlsoNegotiates

VariantAlsoNegotiatesError_Error(e) ==
  IF e.Message # "" THEN e.Message ELSE StatusText(VariantAlsoNegotiatesError_HTTPCode(e))

VariantAlsoNegotiatesError_Unwrap(e) == e.Err

VariantAlsoNegotiatesError_ErrorDetails(e) == e.Details

InsufficientStorageError_HTTPCode(e) == StatusInsufficientStorage

InsufficientStorageError_Error(e) ==
  IF e.Message # "" THEN e.Message ELSE StatusText(InsufficientStorageError_HTTPCode(e))

InsufficientStorageError_Unwrap(e) == e.Err

InsufficientStorageError_ErrorDetails(e) == e.Details

LoopDetectedError_HTTPCode(e) == StatusLoopDetected

LoopDetectedError_Error(e) ==
  IF e.Message # "" THEN e.Message ELSE StatusText(LoopDetectedError_HTTPCode(e))

LoopDetectedError_Unwrap(e) == e.Err

LoopDetectedError_ErrorDetails(e) == e.Details

NotExtendedError_HTTPCode(e) == StatusNotExtended

NotExtendedError_Error(e) ==
  IF e.Message # "" THEN e.Message ELSE StatusText(NotExtendedError_HTTPCode(e))

NotExtendedError_Unwrap(e) == e.Err

NotExtendedError_ErrorDetails(e) == e.Details

NetworkAuthenticationRequiredError_HTTPCode(e) == StatusNetworkAuthenticationRequired

NetworkAuthenticationRequiredError_Error(e) ==
  IF e.Message # "" THEN e.Message ELSE StatusText(NetworkAuthenticationRequiredError_HTTPCode(e))

NetworkAuthenticationRequiredError_Unwrap(e) == e.Err

NetworkAuthenticationRequiredError_ErrorDetails(e) == e.Details

\* The status-specific kinds, one per status code from 400 to 511.
Kinds ==
  {"BadRequestError", "UnauthorizedError", "PaymentRequiredError",
   "ForbiddenError", "NotFoundError", "MethodNotAllowedError",
   "NotAcceptableError", "ProxyAuthRequiredError", "RequestTimeoutError",
   "ConflictError", "GoneError", "LengthRequiredError",
   "PreconditionFailedError", "RequestEntityTooLargeError", "RequestURITooLongError",
   "UnsupportedMediaTypeError", "RequestedRangeNotSatisfiableError", "ExpectationFailedError",
   "TeapotError", "MisdirectedRequestError", "UnprocessableEntityError",
   "LockedError", "FailedDependencyError", "TooEarlyError",
   "UpgradeRequiredError", "PreconditionRequiredError", "TooManyRequestsError",
   "RequestHeaderFieldsTooLargeError", "UnavailableForLegalReasonsError", "InternalServerError",
   "NotImplementedError", "BadGatewayError", "ServiceUnavailableError",
   "GatewayTimeoutError", "HTTPVersionNotSupportedError", "VariantAlsoNegotiatesError",
   "InsufficientStorageError", "LoopDetectedError", "NotExtendedError",
   "NetworkAuthenticationRequiredError"}

\* fmt.Sprintf with one operand: %q quotes it, %s and %v copy it.
RECURSIVE Sprintf(_, _)
Sprintf(format, a) ==
  IF Len(format) = 0 THEN ""
  ELSE IF HasPrefix(format, "%q") THEN Quote(a) \o Sprintf(Drop(format, 2), a)
  ELSE IF HasPrefix(format, "%s") \/ HasPrefix(format, "%v") THEN a \o Sprintf(Drop(format, 2), a)
  ELSE Ch(format, 1) \o Sprintf(Drop(format, 1), a)

\* MissingParameterError(name) and InvalidParameterError(name): string types.
MissingParameterError(name) == [kind |-> "MissingParameterError", name |-> name]

MissingParameterError_Error(e) == Sprintf("Missing parameter %q", e.name)

MissingParameterError_Unwrap(e) ==
  HTTPError("BadRequestError", MissingParameterError_Error(e), <<>>, Nil)

MissingParameterError_Is_Never(e, err) == FALSE

MissingParameterError_Is(e, err) == err.kind \in {"BadRequestError", "*BadRequestError"}

MissingParameterError_HTTPCode(e) == StatusBadRequest

InvalidParameterError(name) == [kind |-> "InvalidParameterError", name |-> name]

InvalidParameterError_Error(e) == Sprintf("Invalid parameter %q", e.name)

InvalidParameterError_Unwrap(e) ==
  HTTPError("BadRequestError", InvalidParameterError_Error(e), <<>>, Nil)

InvalidParameterError_Is_Any(e, err) == TRUE

InvalidParameterError_Is(e, err) == err.kind \in {"BadRequestError", "*BadRequestError"}

InvalidParameterError_HTTPCode(e) == StatusBadRequest

\* ------------------------------------------------------------------------
\* Method dispatch on a value held in an interface
\* ------------------------------------------------------------------------

\* err.(httpCoder): the dynamic type has an HTTPCode method.
IsHTTPCoder(e) ==
  e.kind \in Kinds \cup {"Error", "MissingParameterError", "InvalidParameterError"}

\* err.(httpErrorDetails): the dynamic type has an ErrorDetails method.
IsHTTPErrorDetails(e) == e.kind \in Kinds \cup {"Error"}

\* The dynamic type has an Error method (it is an error).
IsError(e) == e.kind \notin {"nil", "string"}

\* i.HTTPCode() on the dynamic type of i.
HTTPCode(e) ==
  CASE e.kind = "Error" -> Error_HTTPCode(e)
    [] e.kind = "MissingParameterError" -> MissingParameterError_HTTPCode(e)
    [] e.kind = "InvalidParameterError" -> InvalidParameterError_HTTPCode(e)
    [] e.kind = "BadRequestError" -> BadRequestError_HTTPCode(e)
    [] e.kind = "UnauthorizedError" -> UnauthorizedError_HTTPCode(e)
    [] e.kind = "PaymentRequiredError" -> PaymentRequiredError_HTTPCode(e)
    [] e.kind = "ForbiddenError" -> ForbiddenError_HTTPCode(e)
    [] e.kind = "NotFoundError" -> NotFoundError_HTTPCode(e)
    [] e.kind = "MethodNotAllowedError" -> MethodNotAllowedError_HTTPCode(e)
    [] e.kind = "NotAcceptableError" -> NotAcceptableError_HTTPCode(e)
    [] e.kind = "ProxyAuthRequiredError" -> ProxyAuthRequiredError_HTTPCode(e)
    [] e.kind = "RequestTimeoutError" -> RequestTimeoutError_HTTPCode(e)
    [] e.kind = "ConflictError" -> ConflictError_HTTPCode(e)
    [] e.kind = "GoneError" -> GoneError_HTTPCode(e)
    [] e.kind = "LengthRequiredError" -> LengthRequiredError_HTTPCode(e)
    [] e.kind = "PreconditionFailedError" -> PreconditionFailedError_HTTPCode(e)
    [] e.kind = "RequestEntityTooLargeError" -> RequestEntityTooLargeError_HTTPCode(e)
    [] e.kind = "RequestURITooLongError" -> RequestURITooLongError_HTTPCode(e)
    [] e.kind = "UnsupportedMediaTypeError" -> UnsupportedMediaTypeError_HTTPCode(e)
    [] e.kind = "RequestedRangeNotSatisfiableError" -> RequestedRangeNotSatisfiableError_HTTPCode(e)
    [] e.kind = "ExpectationFailedError" -> ExpectationFailedError_HTTPCode(e)
    [] e.kind = "TeapotError" -> TeapotError_HTTPCode(e)
    [] e.kind = "MisdirectedRequestError" -> MisdirectedRequestError_HTTPCode(e)
    [] e.kind = "UnprocessableEntityError" -> UnprocessableEntityError_HTTPCode(e)
    [] e.kind = "LockedError" -> LockedError_HTTPCode(e)
    [] e.kind = "FailedDependencyError" -> FailedDependencyError_HTTPCode(e)
    [] e.kind = "TooEarlyError" -> TooEarlyError_HTTPCode(e)
    [] e.kind = "UpgradeRequiredError" -> UpgradeRequiredError_HTTPCode(e)
    [] e.kind = "PreconditionRequiredError" -> PreconditionRequiredError_HTTPCode(e)
    [] e.kind = "TooManyRequestsError" -> TooManyRequestsError_HTTPCode(e)
    [] e.kind = "RequestHeaderFieldsTooLargeError" -> RequestHeaderFieldsTooLargeError_HTTPCode(e)
    [] e.kind = "UnavailableForLegalReasonsError" -> UnavailableForLegalReasonsError_HTTPCode(e)
    [] e.kind = "InternalServerError" -> InternalServerError_HTTPCode(e)
    [] e.kind = "NotImplementedError" -> NotImplementedError_HTTPCode(e)
    [] e.kind = "BadGatewayError" -> BadGatewayError_HTTPCode(e)
    [] e.kind = "ServiceUnavailableError" -> ServiceUnavailableError_HTTPCode(e)
    [] e.kind = "GatewayTimeoutError" -> GatewayTimeoutError_HTTPCode(e)
    [] e.kind = "HTTPVersionNotSupportedError" -> HTTPVersionNotSupportedError_HTTPCode(e)
    [] e.kind = "VariantAlsoNegotiatesError" -> VariantAlsoNegotiatesError_HTTPCode(e)
    [] e.kind = "InsufficientStorageError" -> InsufficientStorageError_HTTPCode(e)
    [] e.kind = "LoopDetectedError" -> LoopDetectedError_HTTPCode(e)
    [] e.kind = "NotExtendedError" -> NotExtendedError_HTTPCode(e)
    [] e.kind = "NetworkAuthenticationRequiredError" -> NetworkAuthenticationRequiredError_HTTPCode(e)

\* i.ErrorDetails() on the dynamic type of i.
ErrorDetails(e) ==
  CASE e.kind = "Error" -> Error_ErrorDetails(e)
    [] e.kind = "BadRequestError" -> BadRequestError_ErrorDetails(e)
    [] e.kind = "UnauthorizedError" -> UnauthorizedError_ErrorDetails(e)
    [] e.kind = "PaymentRequiredError" -> PaymentRequiredError_ErrorDetails(e)
    [] e.kind = "ForbiddenError" -> ForbiddenError_ErrorDetails(e)
    [] e.kind = "NotFoundError" -> NotFoundError_ErrorDetails(e)
    [] e.kind = "MethodNotAllowedError" -> MethodNotAllowedError_ErrorDetails(e)
    [] e.kind = "NotAcceptableError" -> NotAcceptableError_ErrorDetails(e)
    [] e.kind = "ProxyAuthRequiredError" -> ProxyAuthRequiredError_ErrorDetails(e)
    [] e.kind = "RequestTimeoutError" -> RequestTimeoutError_ErrorDetails(e)
    [] e.kind = "ConflictError" -> ConflictError_ErrorDetails(e)
    [] e.kind = "GoneError" -> GoneError_ErrorDetails(e)
    [] e.kind = "LengthRequiredError" -> LengthRequiredError_ErrorDetails(e)
    [] e.kind = "PreconditionFailedError" -> PreconditionFailedError_ErrorDetails(e)
    [] e.kind = "RequestEntityTooLargeError" -> RequestEntityTooLargeError_ErrorDetails(e)
    [] e.kind = "RequestURITooLongError" -> RequestURITooLongError_ErrorDetails(e)
    [] e.kind = "UnsupportedMediaTypeError" -> UnsupportedMediaTypeError_ErrorDetails(e)
    [] e.kind = "RequestedRangeNotSatisfiableError" -> RequestedRangeNotSatisfiableError_ErrorDetails(e)
    [] e.kind = "ExpectationFailedError" -> ExpectationFailedError_ErrorDetails(e)
    [] e.kind = "TeapotError" -> TeapotError_ErrorDetails(e)
    [] e.kind = "MisdirectedRequestError" -> MisdirectedRequestError_ErrorDetails(e)
    [] e.kind = "UnprocessableEntityError" -> UnprocessableEntityError_ErrorDetails(e)
    [] e.kind = "LockedError" -> LockedError_ErrorDetails(e)
    [] e.kind = "FailedDependencyError" -> FailedDependencyError_ErrorDetails(e)
    [] e.kind = "TooEarlyError" -> TooEarlyError_ErrorDetails(e)
    [] e.kind = "UpgradeRequiredError" -> UpgradeRequiredError_ErrorDetails(e)
    [] e.kind = "PreconditionRequiredError" -> PreconditionRequiredError_ErrorDetails(e)
    [] e.kind = "TooManyRequestsError" -> TooManyRequestsError_ErrorDetails(e)
    [] e.kind = "RequestHeaderFieldsTooLargeError" -> RequestHeaderFieldsTooLargeError_ErrorDetails(e)
    [] e.kind = "UnavailableForLegalReasonsError" -> UnavailableForLegalReasonsError_ErrorDetails(e)
    [] e.kind = "InternalServerError" -> InternalServerError_ErrorDetails(e)
    [] e.kind = "NotImplementedError" -> NotImplementedError_ErrorDetails(e)
    [] e.kind = "BadGatewayError" -> BadGatewayError_ErrorDetails(e)
    [] e.kind = "ServiceUnavailableError" -> ServiceUnavailableError_ErrorDetails(e)
    [] e.kind = "GatewayTimeoutError" -> GatewayTimeoutError_ErrorDetails(e)
    [] e.kind = "HTTPVersionNotSupportedError" -> HTTPVersionNotSupportedError_ErrorDetails(e)
    [] e.kind = "VariantAlsoNegotiatesError" -> VariantAlsoNegotiatesError_ErrorDetails(e)
    [] e.kind = "InsufficientStorageError" -> InsufficientStorageError_ErrorDetails(e)
    [] e.kind = "LoopDetectedError" -> LoopDetectedError_ErrorDetails(e)
    [] e.kind = "NotExtendedError" -> NotExtendedError_ErrorDetails(e)
    [] e.kind = "NetworkAuthenticationRequiredError" -> NetworkAuthenticationRequiredError_ErrorDetails(e)

\* err.Error() on the dynamic type of err.
Error(e) ==
  CASE e.kind = "errorString" -> e.s
    [] e.kind = "wrapError" -> e.s
    [] e.kind = "Error" -> Error_Error(e)
    [] e.kind = "MissingParameterError" -> MissingParameterError_Error(e)
    [] e.kind = "InvalidParameterError" -> InvalidParameterError_Error(e)
    [] e.kind = "BadRequestError" -> BadRequestError_Error(e)
    [] e.kind = "UnauthorizedError" -> UnauthorizedError_Error(e)
    [] e.kind = "PaymentRequiredError" -> PaymentRequiredError_Error(e)
    [] e.kind = "ForbiddenError" -> ForbiddenError_Error(e)
    [] e.kind = "NotFoundError" -> NotFoundError_Error(e)
    [] e.kind = "MethodNotAllowedError" -> MethodNotAllowedError_Error(e)
    [] e.kind = "NotAcceptableError" -> NotAcceptableError_Error(e)
    [] e.kind = "ProxyAuthRequiredError" -> ProxyAuthRequiredError_Error(e)
    [] e.kind = "RequestTimeoutError" -> RequestTimeoutError_Error(e)
    [] e.kind = "ConflictError" -> ConflictError_Error(e)
    [] e.kind = "GoneError" -> GoneError_Error(e)
    [] e.kind = "LengthRequiredError" -> LengthRequiredError_Error(e)
    [] e.kind = "PreconditionFailedError" -> PreconditionFailedError_Error(e)
    [] e.kind = "RequestEntityTooLargeError" -> RequestEntityTooLargeError_Error(e)
    [] e.kind = "RequestURITooLongError" -> RequestURITooLongError_Error(e)
    [] e.kind = "UnsupportedMediaTypeError" -> UnsupportedMediaTypeError_Error(e)
    [] e.kind = "RequestedRangeNotSatisfiableError" -> RequestedRangeNotSatisfiableError_Error(e)
    [] e.kind = "ExpectationFailedError" -> ExpectationFailedError_Error(e)
    [] e.kind = "TeapotError" -> TeapotError_Error(e)
    [] e.kind = "MisdirectedRequestError" -> MisdirectedRequestError_Error(e)
    [] e.kind = "UnprocessableEntityError" -> UnprocessableEntityError_Error(e)
    [] e.kind = "LockedError" -> LockedError_Error(e)
    [] e.kind = "FailedDependencyError" -> FailedDependencyError_Error(e)
    [] e.kind = "TooEarlyError" -> TooEarlyError_Error(e)
    [] e.kind = "UpgradeRequiredError" -> UpgradeRequiredError_Error(e)
    [] e.kind = "PreconditionRequiredError" -> PreconditionRequiredError_Error(e)
    [] e.kind = "TooManyRequestsError" -> TooManyRequestsError_Error(e)
    [] e.kind = "RequestHeaderFieldsTooLargeError" -> RequestHeaderFieldsTooLargeError_Error(e)
    [] e.kind = "UnavailableForLegalReasonsError" -> UnavailableForLegalReasonsError_Error(e)
    [] e.kind = "InternalServerError" -> InternalServerError_Error(e)
    [] e.kind = "NotImplementedError" -> NotImplementedError_Error(e)
    [] e.kind = "BadGatewayError" -> BadGatewayError_Error(e)
    [] e.kind = "ServiceUnavailableError" -> ServiceUnavailableError_Error(e)
    [] e.kind = "GatewayTimeoutError" -> GatewayTimeoutError_Error(e)
    [] e.kind = "HTTPVersionNotSupportedError" -> HTTPVersionNotSupportedError_Error(e)
    [] e.kind = "VariantAlsoNegotiatesError" -> VariantAlsoNegotiatesError_Error(e)
    [] e.kind = "InsufficientStorageError" -> InsufficientStorageError_Error(e)
    [] e.kind = "LoopDetectedError" -> LoopDetectedError_Error(e)
    [] e.kind = "NotExtendedError" -> NotExtendedError_Error(e)
    [] e.kind = "NetworkAuthenticationRequiredError" -> NetworkAuthenticationRequiredError_Error(e)

\* err.Unwrap() on the dynamic type of err; nil for a type without the method.
Unwrap(e) ==
  CASE e.kind \in {"errorString", "string", "nil"} -> Nil
    [] e.kind = "wrapError" -> e.err
    [] e.kind = "Error" -> Error_Unwrap(e)
    [] e.kind = "MissingParameterError" -> MissingParameterError_Unwrap(e)
    [] e.kind = "InvalidParameterError" -> InvalidParameterError_Unwrap(e)
    [] e.kind = "BadRequestError" -> BadRequestError_Unwrap(e)
    [] e.kind = "UnauthorizedError" -> UnauthorizedError_Unwrap(e)
    [] e.kind = "PaymentRequiredError" -> PaymentRequiredError_Unwrap(e)
    [] e.kind = "ForbiddenError" -> ForbiddenError_Unwrap(e)
    [] e.kind = "NotFoundError" -> NotFoundError_Unwrap(e)
    [] e.kind = "MethodNotAllowedError" -> MethodNotAllowedError_Unwrap(e)
    [] e.kind = "NotAcceptableError" -> NotAcceptableError_Unwrap(e)
    [] e.kind = "ProxyAuthRequiredError" -> ProxyAuthRequiredError_Unwrap(e)
    [] e.kind = "RequestTimeoutError" -> RequestTimeoutError_Unwrap(e)
    [] e.kind = "ConflictError" -> ConflictError_Unwrap(e)
    [] e.kind = "GoneError" -> GoneError_Unwrap(e)
    [] e.kind = "LengthRequiredError" -> LengthRequiredError_Unwrap(e)
    [] e.kind = "PreconditionFailedError" -> PreconditionFailedError_Unwrap(e)
    [] e.kind = "RequestEntityTooLargeError" -> RequestEntityTooLargeError_Unwrap(e)
    [] e.kind = "RequestURITooLongError" -> RequestURITooLongError_Unwrap(e)
    [] e.kind = "UnsupportedMediaTypeError" -> UnsupportedMediaTypeError_Unwrap(e)
    [] e.kind = "RequestedRangeNotSatisfiableError" -> RequestedRangeNotSatisfiableError_Unwrap(e)
    [] e.kind = "ExpectationFailedError" -> ExpectationFailedError_Unwrap(e)
    [] e.kind = "TeapotError" -> TeapotError_Unwrap(e)
    [] e.kind = "MisdirectedRequestError" -> MisdirectedRequestError_Unwrap(e)
    [] e.kind = "UnprocessableEntityError" -> UnprocessableEntityError_Unwrap(e)
    [] e.kind = "LockedError" -> LockedError_Unwrap(e)
    [] e.kind = "FailedDependencyError" -> FailedDependencyError_Unwrap(e)
    [] e.kind = "TooEarlyError" -> TooEarlyError_Unwrap(e)
    [] e.kind = "UpgradeRequiredError" -> UpgradeRequiredError_Unwrap(e)
    [] e.kind = "PreconditionRequiredError" -> PreconditionRequiredError_Unwrap(e)
    [] e.kind = "TooManyRequestsError" -> TooManyRequestsError_Unwrap(e)
    [] e.kind = "RequestHeaderFieldsTooLargeError" -> RequestHeaderFieldsTooLargeError_Unwrap(e)
    [] e.kind = "UnavailableForLegalReasonsError" -> UnavailableForLegalReasonsError_Unwrap(e)
    [] e.kind = "InternalServerError" -> InternalServerError_Unwrap(e)
    [] e.kind = "NotImplementedError" -> NotImplementedError_Unwrap(e)
    [] e.kind = "BadGatewayError" -> BadGatewayError_Unwrap(e)
    [] e.kind = "ServiceUnavailableError" -> ServiceUnavailableError_Unwrap(e)
    [] e.kind = "GatewayTimeoutError" -> GatewayTimeoutError_Unwrap(e)
    [] e.kind = "HTTPVersionNotSupportedError" -> HTTPVersionNotSupportedError_Unwrap(e)
    [] e.kind = "VariantAlsoNegotiatesError" -> VariantAlsoNegotiatesError_Unwrap(e)
    [] e.kind = "InsufficientStorageError" -> InsufficientStorageError_Unwrap(e)
    [] e.kind = "LoopDetectedError" -> LoopDetectedError_Unwrap(e)
    [] e.kind = "NotExtendedError" -> NotExtendedError_Unwrap(e)
    [] e.kind = "NetworkAuthenticationRequiredError" -> NetworkAuthenticationRequiredError_Unwrap(e)

\* fmt.Sprint(v) of one operand: an error prints as its Error(), a string
\* as itself, nil as "<nil>".
Sprint(v) ==
  IF v.kind = "nil" THEN "<nil>"
  ELSE IF v.kind = "string" THEN v.s
  ELSE Error(v)


\* ------------------------------------------------------------------------
\* errors.Is of package errors, as called by the tests of the error types
\* ------------------------------------------------------------------------

\* reflect's Comparable on the dynamic type: the string types and the
\* pointer behind errors.New are comparable; the struct kinds hold a
\* []string and are not.
Comparable(e) == e.kind \in {"MissingParameterError", "InvalidParameterError", "errorString"}

\* &e: a pointer to a value of a status-specific kind, as a target.  Its
\* type is *K; no error of this module is such a pointer, so none equals it.
PointerTo(e) == [e EXCEPT !.kind = "*" \o e.kind]

\* The dynamic type has an Is(error) bool method.
HasIs(e) == e.kind \in {"MissingParameterError", "InvalidParameterError"}

\* x.Is(target) on the dynamic type of x.
Is(e, target) ==
  CASE e.kind = "MissingParameterError" -> MissingParameterError_Is(e, target)
    [] e.kind = "InvalidParameterError" -> InvalidParameterError_Is(e, target)

\* The dynamic type has an Unwrap() error method.
HasUnwrap(e) == e.kind \notin {"nil", "string", "errorString"}

\* errors.Is(err, target): walks the chain of Unwrap from err; a link matches
\* when it equals a comparable target or when its Is method accepts target.
RECURSIVE ErrorsIs(_, _)
ErrorsIs(err, target) ==
  IF err.kind = "nil" \/ target.kind = "nil" THEN err.kind = target.kind
  ELSE IF Comparable(target) /\ err.kind = target.kind /\ err = target THEN TRUE
  ELSE IF HasIs(err) /\ Is(err, target) THEN TRUE
  ELSE IF ~HasUnwrap(err) THEN FALSE
  ELSE ErrorsIs(Unwrap(err), target)
\* ------------------------------------------------------------------------
\* The request: its parameter sources, as the accessors read them
\* ------------------------------------------------------------------------

\* A map without entries.
EmptyMap == [k \in {} |-> <<>>]

\* v, found := m[key]
MapFound(m, key) == key \in DOMAIN m

MapValue(m, key) == m[key]

\* The values of key in a url.Values, none when the key is absent.
ValuesOf(m, key) == IF key \in DOMAIN m THEN m[key] ELSE <<>>

\* r.ParseForm(): when the form was not parsed before (r.Form is nil, which
\* is <<>> here), r.Form becomes the values of the body followed, name by
\* name, by those of the query string; a form parsed before is left alone.
ParseForm(r) ==
  IF r.Form # <<>> THEN r
  ELSE [r EXCEPT !.Form = <<[k \in DOMAIN r.PostForm \cup DOMAIN r.Query |->
                               ValuesOf(r.PostForm, k) \o ValuesOf(r.Query, k)]>>]

\* r.FormValue(key): parses the form when needed; the first value of key in
\* the parsed form, "" when there is none.
FormValue(r, key) ==
  IF Len(ValuesOf(ParseForm(r).Form[1], key)) > 0
  THEN ValuesOf(ParseForm(r).Form[1], key)[1]
  ELSE ""

\* r.URL.Query().Get(key): the first value of key in the query string.
QueryGet(r, key) ==
  LET vs == ValuesOf(r.Query, key)
  IN  IF Len(vs) = 0 THEN "" ELSE vs[1]

\* mux.Vars(r): the routing variables of the request.
muxVars(r) == r.Vars

\* ------------------------------------------------------------------------
\* Conversions and helpers of the accessors
\* ------------------------------------------------------------------------

Two16 == 65536

\* The low 32 bits of a decimal magnitude, as two 16-bit halves.
RECURSIVE Low32(_, _)
Low32(digits, acc) ==
  IF Len(digits) = 0 THEN acc
  ELSE LET lo == acc.lo * 10 + DigitVal(Ch(digits, 1))
           hi == acc.hi * 10 + lo \div Two16
       IN  Low32(Drop(digits, 1), [hi |-> hi % Two16, lo |-> lo % Two16])

\* The two's complement of a 32-bit pattern.
Neg32(u) ==
  IF u.hi = 0 /\ u.lo = 0 THEN u
  ELSE [hi |-> (Two16 - 1 - u.hi + (IF u.lo = 0 THEN 1 ELSE 0)) % Two16,
        lo |-> (Two16 - u.lo) % Two16]

\* int32(i): the low 32 bits of i read as a signed number.
Int32(i) ==
  LET neg == Ch(i, 1) = "-"
      m   == Low32(IF neg THEN Drop(i, 1) ELSE i, [hi |-> 0, lo |-> 0])
      u   == IF neg THEN Neg32(m) ELSE m
      n   == Neg32(u)
  IN  IF u.hi < Two16 \div 2 THEN NatToDigits(u.hi * Two16 + u.lo)
      ELSE IF n.hi = Two16 \div 2 THEN "-2147483648"
      ELSE "-" \o NatToDigits(n.hi * Two16 + n.lo)

\* float32(f): f itself when a float32 can hold its magnitude, else infinity.
Float32(f) ==
  IF f.cls = "num" /\ f.mant # "0"
     /\ (\/ Len(f.mant) + f.exp > FloatMaxOrder(32)
         \/ Len(f.mant) + f.exp = FloatMaxOrder(32) /\ FracGeq(f.mant, FloatMaxDigits(32)))
  THEN [cls |-> "inf", neg |-> f.neg, mant |-> "0", exp |-> 0]
  ELSE f

\* strings.Split(s, sep) for a separator of one character.
RECURSIVE SplitFrom(_, _, _)
SplitFrom(s, sep, cur) ==
  IF Len(s) = 0 THEN <<cur>>
  ELSE IF Ch(s, 1) = sep THEN <<cur>> \o SplitFrom(Drop(s, 1), sep, "")
  ELSE SplitFrom(Drop(s, 1), sep, cur \o Ch(s, 1))

Split(s, sep) == SplitFrom(s, sep, "")

\* How a call ends: it returns a value or it panics with a payload.
Return(v) == [panicked |-> FALSE, ret |-> v]

Panic(e) == [panicked |-> TRUE, err |-> e]

\* ------------------------------------------------------------------------
\* params.go: the accessors
\* ------------------------------------------------------------------------

MustFormString(r, key) ==
  LET v == FormValue(r, key)
  IN  IF v = "" THEN Panic(HTTPError("BadRequestError", Sprintf("Missing parameter %q", key), <<>>, Nil))
      ELSE Return(v)

MustFormBool(r, key) ==
  LET v == FormValue(r, key)
      p == ParseBool(v)
  IN  IF v = "" THEN Panic(HTTPError("BadRequestError", Sprintf("Missing parameter %q", key), <<>>, Nil))
      ELSE IF ~p.ok THEN Panic(HTTPError("BadRequestError", Sprintf("Invalid parameter %q", key), <<>>, Nil))
      ELSE Return(p.v)

MustFormInt(r, key) ==
  LET v == FormValue(r, key)
      p == Atoi(v)
  IN  IF v = "" THEN Panic(HTTPError("BadRequestError", Sprintf("Missing parameter %q", key), <<>>, Nil))
      ELSE IF ~p.ok THEN Panic(HTTPError("BadRequestError", Sprintf("Invalid parameter %q", key), <<>>, Nil))
      ELSE Return(p.v)

MustFormInt32(r, key) ==
  LET v == FormValue(r, key)
      p == ParseInt(v, 32)
  IN  IF v = "" THEN Panic(HTTPError("BadRequestError", Sprintf("Missing parameter %q", key), <<>>, Nil))
      ELSE IF ~p.ok THEN Panic(HTTPError("BadRequestError", Sprintf("Invalid parameter %q", key), <<>>, Nil))
      ELSE Return(Int32(p.v))

MustFormInt64(r, key) ==
  LET v == FormValue(r, key)
      p == ParseInt(v, 64)
  IN  IF v = "" THEN Panic(HTTPError("BadRequestError", Sprintf("Missing parameter %q", key), <<>>, Nil))
      ELSE IF ~p.ok THEN Panic(HTTPError("BadRequestError", Sprintf("Invalid parameter %q", key), <<>>, Nil))
      ELSE Return(p.v)

MustFormFloat32(r, key) ==
  LET v == FormValue(r, key)
      p == ParseFloat(v, 32)
  IN  IF v = "" THEN Panic(HTTPError("BadRequestError", Sprintf("Missing parameter %q", key), <<>>, Nil))
      ELSE IF ~p.ok THEN Panic(HTTPError("BadRequestError", Sprintf("Invalid parameter %q", key), <<>>, Nil))
      ELSE Return(Float32(p.v))

MustFormFloat64(r, key) ==
  LET v == FormValue(r, key)
      p == ParseFloat(v, 64)
  IN  IF v = "" THEN Panic(HTTPError("BadRequestError", Sprintf("Missing parameter %q", key), <<>>, Nil))
      ELSE IF ~p.ok THEN Panic(HTTPError("BadRequestError", Sprintf("Invalid parameter %q", key), <<>>, Nil))
      ELSE Return(p.v)

MustFormTime(r, key, layout) ==
  LET v == FormValue(r, key)
      p == TimeParse(layout, v)
  IN  IF v = "" THEN Panic(HTTPError("BadRequestError", Sprintf("Missing parameter %q", key), <<>>, Nil))
      ELSE IF ~p.ok THEN Panic(HTTPError("BadRequestError", Sprintf("Invalid parameter %q", key), <<>>, Nil))
      ELSE Return(p.v)

MustFormTimeWithDefault(r, key, layout, defaultValue) ==
  LET v == FormValue(r, key)
      p == TimeParse(layout, v)
  IN  IF v = "" THEN Return(defaultValue)
      ELSE IF ~p.ok THEN Panic(HTTPError("BadRequestError", Sprintf("Invalid parameter %q", key), <<>>, Nil))
      ELSE Return(p.v)

MustFormDuration(r, key) ==
  LET v == FormValue(r, key)
      p == ParseDuration(v)
  IN  IF v = "" THEN Panic(HTTPError("BadRequestError", Sprintf("Missing parameter %q", key), <<>>, Nil))
      ELSE IF ~p.ok THEN Panic(HTTPError("BadRequestError", Sprintf("Invalid parameter %q", key), <<>>, Nil))
      ELSE Return(p.v)

MustFormDurationWithDefault_Missing(r, key, defaultValue) ==
  LET v == FormValue(r, key)
      p == ParseDuration(v)
  IN  IF v = "" THEN Panic(HTTPError("BadRequestError", Sprintf("Missing parameter %q", key), <<>>, Nil))
      ELSE IF ~p.ok THEN Panic(HTTPError("BadRequestError", Sprintf("Invalid parameter %q", key), <<>>, Nil))
      ELSE Return(p.v)

MustFormDurationWithDefault(r, key, defaultValue) ==
  LET v == FormValue(r, key)
      p == ParseDuration(v)
  IN  IF v = "" THEN Return(defaultValue)
      ELSE IF ~p.ok THEN Panic(HTTPError("BadRequestError", Sprintf("Invalid parameter %q", key), <<>>, Nil))
      ELSE Return(p.v)

FormString(r, key, defaultValue) ==
  LET v == FormValue(r, key)
  IN  IF v # "" THEN Return(v)
      ELSE Return(defaultValue)

FormBool(r, key, defaultValue) ==
  LET v == FormValue(r, key)
      p == ParseBool(v)
  IN  IF v = "" THEN Return(defaultValue)
      ELSE IF ~p.ok THEN Return(defaultValue)
      ELSE Return(p.v)

FormInt(r, key, defaultValue) ==
  LET v == FormValue(r, key)
      p == Atoi(v)
  IN  IF v = "" THEN Return(defaultValue)
      ELSE IF ~p.ok THEN Return(defaultValue)
      ELSE Return(p.v)

FormInt32_Strict(r, key, defaultValue) ==
  LET v == FormValue(r, key)
      p == ParseInt(v, 32)
  IN  IF v = "" THEN Return(defaultValue)
      ELSE IF ~p.ok THEN Panic(HTTPError("BadRequestError", Sprintf("Invalid parameter %q", key), <<>>, Nil))
      ELSE Return(Int32(p.v))

FormInt32(r, key, defaultValue) ==
  LET v == FormValue(r, key)
      p == ParseInt(v, 32)
  IN  IF v = "" THEN Return(defaultValue)
      ELSE IF ~p.ok THEN Return(defaultValue)
      ELSE Return(Int32(p.v))

FormInt64(r, key, defaultValue) ==
  LET v == FormValue(r, key)
      p == ParseInt(v, 64)
  IN  IF v = "" THEN Return(defaultValue)
      ELSE IF ~p.ok THEN Return(defaultValue)
      ELSE Return(p.v)

FormFloat32(r, key, defaultValue) ==
  LET v == FormValue(r, key)
      p == ParseFloat(v, 32)
  IN  IF v = "" THEN Return(defaultValue)
      ELSE IF ~p.ok THEN Return(defaultValue)
      ELSE Return(Float32(p.v))

FormFloat64(r, key, defaultValue) ==
  LET v == FormValue(r, key)
      p == ParseFloat(v, 64)
  IN  IF v = "" THEN Return(defaultValue)
      ELSE IF ~p.ok THEN Return(defaultValue)
      ELSE Return(p.v)

FormTime(r, key, layout, defaultValue) ==
  LET v == FormValue(r, key)
      p == TimeParse(layout, v)
  IN  IF v = "" THEN Return(defaultValue)
      ELSE IF ~p.ok THEN Return(defaultValue)
      ELSE Return(p.v)

FormDuration(r, key, defaultValue) ==
  LET v == FormValue(r, key)
      p == ParseDuration(v)
  IN  IF v = "" THEN Return(defaultValue)
      ELSE IF ~p.ok THEN Return(defaultValue)
      ELSE Return(p.v)

MustQueryString(r, key) ==
  LET v == QueryGet(r, key)
  IN  IF v = "" THEN Panic(HTTPError("BadRequestError", Sprintf("Missing parameter %q", key), <<>>, Nil))
      ELSE Return(v)

MustQueryBool(r, key) ==
  LET v == QueryGet(r, key)
      p == ParseBool(v)
  IN  IF v = "" THEN Panic(HTTPError("BadRequestError", Sprintf("Missing parameter %q", key), <<>>, Nil))
      ELSE IF ~p.ok THEN Panic(HTTPError("BadRequestError", Sprintf("Invalid parameter %q", key), <<>>, Nil))
      ELSE Return(p.v)

MustQueryInt(r, key) ==
  LET v == QueryGet(r, key)
      p == Atoi(v)
  IN  IF v = "" THEN Panic(HTTPError("BadRequestError", Sprintf("Missing parameter %q", key), <<>>, Nil))
      ELSE IF ~p.ok THEN Panic(HTTPError("BadRequestError", Sprintf("Invalid parameter %q", key), <<>>, Nil))
      ELSE Return(p.v)

MustQueryInt32_Wide(r, key) ==
  LET v == QueryGet(r, key)
      p == ParseInt(v, 64)
  IN  IF v = "" THEN Panic(HTTPError("BadRequestError", Sprintf("Missing parameter %q", key), <<>>, Nil))
      ELSE IF ~p.ok THEN Panic(HTTPError("BadRequestError", Sprintf("Invalid parameter %q", key), <<>>, Nil))
      ELSE Return(Int32(p.v))

MustQueryInt32(r, key) ==
  LET v == QueryGet(r, key)
      p == ParseInt(v, 32)
  IN  IF v = "" THEN Panic(HTTPError("BadRequestError", Sprintf("Missing parameter %q", key), <<>>, Nil))
      ELSE IF ~p.ok THEN Panic(HTTPError("BadRequestError", Sprintf("Invalid parameter %q", key), <<>>, Nil))
      ELSE Return(Int32(p.v))

MustQueryInt64_Lenient(r, key) ==
  LET v == QueryGet(r, key)
      p == ParseInt(v, 64)
  IN  IF v = "" THEN Panic(HTTPError("BadRequestError", Sprintf("Missing parameter %q", key), <<>>, Nil))
      ELSE IF ~p.ok THEN Return("0")
      ELSE Return(p.v)

MustQueryInt64(r, key) ==
  LET v == QueryGet(r, key)
      p == ParseInt(v, 64)
  IN  IF v = "" THEN Panic(HTTPError("BadRequestError", Sprintf("Missing parameter %q", key), <<>>, Nil))
      ELSE IF ~p.ok THEN Panic(HTTPError("BadRequestError", Sprintf("Invalid parameter %q", key), <<>>, Nil))
      ELSE Return(p.v)

MustQueryFloat32(r, key) ==
  LET v == QueryGet(r, key)
      p == ParseFloat(v, 32)
  IN  IF v = "" THEN Panic(HTTPError("BadRequestError", Sprintf("Missing parameter %q", key), <<>>, Nil))
      ELSE IF ~p.ok THEN Panic(HTTPError("BadRequestError", Sprintf("Invalid parameter %q", key), <<>>, Nil))
      ELSE Return(Float32(p.v))

MustQueryFloat64(r, key) ==
  LET v == QueryGet(r, key)
      p == ParseFloat(v, 64)
  IN  IF v = "" THEN Panic(HTTPError("BadRequestError", Sprintf("Missing parameter %q", key), <<>>, Nil))
      ELSE IF ~p.ok THEN Panic(HTTPError("BadRequestError", Sprintf("Invalid parameter %q", key), <<>>, Nil))
      ELSE Return(p.v)

MustQueryTime(r, key, layout) ==
  LET v == QueryGet(r, key)
      p == TimeParse(layout, v)
  IN  IF v = "" THEN Panic(HTTPError("BadRequestError", Sprintf("Missing parameter %q", key), <<>>, Nil))
      ELSE IF ~p.ok THEN Panic(HTTPError("BadRequestError", Sprintf("Invalid parameter %q", key), <<>>, Nil))
      ELSE Return(p.v)

MustQueryTimeWithDefault(r, key, layout, defaultValue) ==
  LET v == QueryGet(r, key)
      p == TimeParse(layout, v)
  IN  IF v = "" THEN Return(defaultValue)
      ELSE IF ~p.ok THEN Panic(HTTPError("BadRequestError", Sprintf("Invalid parameter %q", key), <<>>, Nil))
      ELSE Return(p.v)

MustQueryDuration(r, key) ==
  LET v == QueryGet(r, key)
      p == ParseDuration(v)
  IN  IF v = "" THEN Panic(HTTPError("BadRequestError", Sprintf("Missing parameter %q", key), <<>>, Nil))
      ELSE IF ~p.ok THEN Panic(HTTPError("BadRequestError", Sprintf("Invalid parameter %q", key), <<>>, Nil))
      ELSE Return(p.v)

MustQueryDurationWithDefault(r, key, defaultValue) ==
  LET v == QueryGet(r, key)
      p == ParseDuration(v)
  IN  IF v = "" THEN Return(defaultValue)
      ELSE IF ~p.ok THEN Panic(HTTPError("BadRequestError", Sprintf("Invalid parameter %q", key), <<>>, Nil))
      ELSE Return(p.v)

QueryString(r, key, defaultValue) ==
  LET v == QueryGet(r, key)
  IN  IF v = "" THEN Return(defaultValue)
      ELSE Return(v)

QueryStringArray_NoEmpty(r, key, defaultValue) ==
  LET v == QueryGet(r, key)
  IN  IF v = "" THEN Return(defaultValue)
      ELSE Return(SelectSeq(Split(v, ","), LAMBDA x : x # ""))

QueryStringArray(r, key, defaultValue) ==
  LET v == QueryGet(r, key)
  IN  IF v = "" THEN Return(defaultValue)
      ELSE Return(Split(v, ","))

QueryBool(r, key, defaultValue) ==
  LET v == QueryGet(r, key)
      p == ParseBool(v)
  IN  IF v = "" THEN Return(defaultValue)
      ELSE IF ~p.ok THEN Return(defaultValue)
      ELSE Return(p.v)

QueryInt(r, key, defaultValue) ==
  LET v == QueryGet(r, key)
      p == Atoi(v)
  IN  IF v = "" THEN Return(defaultValue)
      ELSE IF ~p.ok THEN Return(defaultValue)
      ELSE Return(p.v)

QueryInt32(r, key, defaultValue) ==
  LET v == QueryGet(r, key)
      p == ParseInt(v, 32)
  IN  IF v = "" THEN Return(defaultValue)
      ELSE IF ~p.ok THEN Return(defaultValue)
      ELSE Return(Int32(p.v))

QueryInt64(r, key, defaultValue) ==
  LET v == QueryGet(r, key)
      p == ParseInt(v, 64)
  IN  IF v = "" THEN Return(defaultValue)
      ELSE IF ~p.ok THEN Return(defaultValue)
      ELSE Return(p.v)

QueryFloat32(r, key, defaultValue) ==
  LET v == QueryGet(r, key)
      p == ParseFloat(v, 32)
  IN  IF v = "" THEN Return(defaultValue)
      ELSE IF ~p.ok THEN Return(defaultValue)
      ELSE Return(Float32(p.v))

QueryFloat64(r, key, defaultValue) ==
  LET v == QueryGet(r, key)
      p == ParseFloat(v, 64)
  IN  IF v = "" THEN Return(defaultValue)
      ELSE IF ~p.ok THEN Return(defaultValue)
      ELSE Return(p.v)

QueryTime(r, key, layout) ==
  LET v == QueryGet(r, key)
      p == TimeParse(layout, v)
  IN  IF v = "" THEN Return(ZeroTime)
      ELSE IF ~p.ok THEN Return(ZeroTime)
      ELSE Return(p.v)

QueryTimeWithDefault(r, key, layout, defaultValue) ==
  LET v == QueryGet(r, key)
      p == TimeParse(layout, v)
  IN  IF v = "" THEN Return(defaultValue)
      ELSE IF ~p.ok THEN Return(defaultValue)
      ELSE Return(p.v)

QueryDuration(r, key) ==
  LET v == QueryGet(r, key)
      p == ParseDuration(v)
  IN  IF v = "" THEN Return(ZeroDuration)
      ELSE IF ~p.ok THEN Return(ZeroDuration)
      ELSE Return(p.v)

QueryDurationWithDefault(r, key, defaultValue) ==
  LET v == QueryGet(r, key)
      p == ParseDuration(v)
  IN  IF v = "" THEN Return(defaultValue)
      ELSE IF ~p.ok THEN Return(defaultValue)
      ELSE Return(p.v)

MustParamsString(r, key) ==
  LET found == MapFound(muxVars(r), key)
      v == IF found THEN MapValue(muxVars(r), key) ELSE ""
  IN  IF ~found \/ v = "" THEN Panic(HTTPError("BadRequestError", Sprintf("Missing parameter %q", key), <<>>, Nil))
      ELSE Return(v)

MustParamsBool(r, key) ==
  LET found == MapFound(muxVars(r), key)
      v == IF found THEN MapValue(muxVars(r), key) ELSE ""
      p == ParseBool(v)
  IN  IF ~found \/ v = "" THEN Panic(HTTPError("BadRequestError", Sprintf("Missing parameter %q", key), <<>>, Nil))
      ELSE IF ~p.ok THEN Panic(HTTPError("BadRequestError", Sprintf("Invalid parameter %q", key), <<>>, Nil))
      ELSE Return(p.v)

MustParamsInt(r, key) ==
  LET found == MapFound(muxVars(r), key)
      v == IF found THEN MapValue(muxVars(r), key) ELSE ""
      p == Atoi(v)
  IN  IF ~found \/ v = "" THEN Panic(HTTPError("BadRequestError", Sprintf("Missing parameter %q", key), <<>>, Nil))
      ELSE IF ~p.ok THEN Panic(HTTPError("BadRequestError", Sprintf("Invalid parameter %q", key), <<>>, Nil))
      ELSE Return(p.v)

MustParamsInt32(r, key) ==
  LET found == MapFound(muxVars(r), key)
      v == IF found THEN MapValue(muxVars(r), key) ELSE ""
      p == ParseInt(v, 32)
  IN  IF ~found \/ v = "" THEN Panic(HTTPError("BadRequestError", Sprintf("Missing parameter %q", key), <<>>, Nil))
      ELSE IF ~p.ok THEN Panic(HTTPError("BadRequestError", Sprintf("Invalid parameter %q", key), <<>>, Nil))
      ELSE Return(Int32(p.v))

MustParamsInt64(r, key) ==
  LET found == MapFound(muxVars(r), key)
      v == IF found THEN MapValue(muxVars(r), key) ELSE ""
      p == ParseInt(v, 64)
  IN  IF ~found \/ v = "" THEN Panic(HTTPError("BadRequestError", Sprintf("Missing parameter %q", key), <<>>, Nil))
      ELSE IF ~p.ok THEN Panic(HTTPError("BadRequestError", Sprintf("Invalid parameter %q", key), <<>>, Nil))
      ELSE Return(p.v)

MustParamsFloat32(r, key) ==
  LET found == MapFound(muxVars(r), key)
      v == IF found THEN MapValue(muxVars(r), key) ELSE ""
      p == ParseFloat(v, 32)
  IN  IF ~found \/ v = "" THEN Panic(HTTPError("BadRequestError", Sprintf("Missing parameter %q", key), <<>>, Nil))
      ELSE IF ~p.ok THEN Panic(HTTPError("BadRequestError", Sprintf("Invalid parameter %q", key), <<>>, Nil))
      ELSE Return(Float32(p.v))

MustParamsFloat64(r, key) ==
  LET found == MapFound(muxVars(r), key)
      v == IF found THEN MapValue(muxVars(r), key) ELSE ""
      p == ParseFloat(v, 64)
  IN  IF ~found \/ v = "" THEN Panic(HTTPError("BadRequestError", Sprintf("Missing parameter %q", key), <<>>, Nil))
      ELSE IF ~p.ok THEN Panic(HTTPError("BadRequestError", Sprintf("Invalid parameter %q", key), <<>>, Nil))
      ELSE Return(p.v)

MustParamsTime(r, key, layout) ==
  LET found == MapFound(muxVars(r), key)
      v == IF found THEN MapValue(muxVars(r), key) ELSE ""
      p == TimeParse(layout, v)
  IN  IF ~found \/ v = "" THEN Panic(HTTPError("BadRequestError", Sprintf("Missing parameter %q", key), <<>>, Nil))
      ELSE IF ~p.ok THEN Panic(HTTPError("BadRequestError", Sprintf("Invalid parameter %q", key), <<>>, Nil))
      ELSE Return(p.v)

MustParamsTimeWithDefault(r, key, layout, defaultValue) ==
  LET found == MapFound(muxVars(r), key)
      v == IF found THEN MapValue(muxVars(r), key) ELSE ""
      p == TimeParse(layout, v)
  IN  IF ~found \/ v = "" THEN Return(defaultValue)
      ELSE IF ~p.ok THEN Panic(HTTPError("BadRequestError", Sprintf("Invalid parameter %q", key), <<>>, Nil))
      ELSE Return(p.v)

MustParamsDuration(r, key) ==
  LET found == MapFound(muxVars(r), key)
      v == IF found THEN MapValue(muxVars(r), key) ELSE ""
      p == ParseDuration(v)
  IN  IF ~found \/ v = "" THEN Panic(HTTPError("BadRequestError", Sprintf("Missing parameter %q", key), <<>>, Nil))
      ELSE IF ~p.ok THEN Panic(HTTPError("BadRequestError", Sprintf("Invalid parameter %q", key), <<>>, Nil))
      ELSE Return(p.v)

MustParamsDurationWithDefault(r, key, defaultValue) ==
  LET found == MapFound(muxVars(r), key)
      v == IF found THEN MapValue(muxVars(r), key) ELSE ""
      p == ParseDuration(v)
  IN  IF ~found \/ v = "" THEN Return(defaultValue)
      ELSE IF ~p.ok THEN Panic(HTTPError("BadRequestError", Sprintf("Invalid parameter %q", key), <<>>, Nil))
      ELSE Return(p.v)

ParamsString(r, key, defaultValue) ==
  LET found == MapFound(muxVars(r), key)
      v == IF found THEN MapValue(muxVars(r), key) ELSE ""
  IN  IF ~found \/ v = "" THEN Return(defaultValue)
      ELSE Return(v)

ParamsBool(r, key, defaultValue) ==
  LET found == MapFound(muxVars(r), key)
      v == IF found THEN MapValue(muxVars(r), key) ELSE ""
      p == ParseBool(v)
  IN  IF ~found \/ v = "" THEN Return(defaultValue)
      ELSE IF ~p.ok THEN Return(defaultValue)
      ELSE Return(p.v)

ParamsInt_Strict(r, key, defaultValue) ==
  LET found == MapFound(muxVars(r), key)
      v == IF found THEN MapValue(muxVars(r), key) ELSE ""
      p == Atoi(v)
  IN  IF ~found \/ v = "" THEN Return(defaultValue)
      ELSE IF ~p.ok THEN Panic(HTTPError("BadRequestError", Sprintf("Invalid parameter %q", key), <<>>, Nil))
      ELSE Return(p.v)

ParamsInt(r, key, defaultValue) ==
  LET found == MapFound(muxVars(r), key)
      v == IF found THEN MapValue(muxVars(r), key) ELSE ""
      p == Atoi(v)
  IN  IF ~found \/ v = "" THEN Return(defaultValue)
      ELSE IF ~p.ok THEN Return(defaultValue)
      ELSE Return(p.v)

ParamsInt32_Wide(r, key, defaultValue) ==
  LET found == MapFound(muxVars(r), key)
      v == IF found THEN MapValue(muxVars(r), key) ELSE ""
      p == ParseInt(v, 64)
  IN  IF ~found \/ v = "" THEN Return(defaultValue)
      ELSE IF ~p.ok THEN Return(defaultValue)
      ELSE Return(Int32(p.v))

ParamsInt32(r, key, defaultValue) ==
  LET found == MapFound(muxVars(r), key)
      v == IF found THEN MapValue(muxVars(r), key) ELSE ""
      p == ParseInt(v, 32)
  IN  IF ~found \/ v = "" THEN Return(defaultValue)
      ELSE IF ~p.ok THEN Return(defaultValue)
      ELSE Return(Int32(p.v))

ParamsInt64(r, key, defaultValue) ==
  LET found == MapFound(muxVars(r), key)
      v == IF found THEN MapValue(muxVars(r), key) ELSE ""
      p == ParseInt(v, 64)
  IN  IF ~found \/ v = "" THEN Return(defaultValue)
      ELSE IF ~p.ok THEN Return(defaultValue)
      ELSE Return(p.v)

ParamsFloat32(r, key, defaultValue) ==
  LET found == MapFound(muxVars(r), key)
      v == IF found THEN MapValue(muxVars(r), key) ELSE ""
      p == ParseFloat(v, 32)
  IN  IF ~found \/ v = "" THEN Return(defaultValue)
      ELSE IF ~p.ok THEN Return(defaultValue)
      ELSE Return(Float32(p.v))

ParamsFloat64_Strict(r, key, defaultValue) ==
  LET found == MapFound(muxVars(r), key)
      v == IF found THEN MapValue(muxVars(r), key) ELSE ""
      p == ParseFloat(v, 64)
  IN  IF ~found \/ v = "" THEN Return(defaultValue)
      ELSE IF ~p.ok THEN Panic(HTTPError("BadRequestError", Sprintf("Invalid parameter %q", key), <<>>, Nil))
      ELSE Return(p.v)

ParamsFloat64(r, key, defaultValue) ==
  LET found == MapFound(muxVars(r), key)
      v == IF found THEN MapValue(muxVars(r), key) ELSE ""
      p == ParseFloat(v, 64)
  IN  IF ~found \/ v = "" THEN Return(defaultValue)
      ELSE IF ~p.ok THEN Return(defaultValue)
      ELSE Return(p.v)

ParamsTime(r, key, layout, defaultValue) ==
  LET found == MapFound(muxVars(r), key)
      v == IF found THEN MapValue(muxVars(r), key) ELSE ""
      p == TimeParse(layout, v)
  IN  IF ~found \/ v = "" THEN Return(defaultValue)
      ELSE IF ~p.ok THEN Return(defaultValue)
      ELSE Return(p.v)

ParamsDuration(r, key, defaultValue) ==
  LET found == MapFound(muxVars(r), key)
      v == IF found THEN MapValue(muxVars(r), key) ELSE ""
      p == ParseDuration(v)
  IN  IF ~found \/ v = "" THEN Return(defaultValue)
      ELSE IF ~p.ok THEN Return(defaultValue)
      ELSE Return(p.v)

\* ------------------------------------------------------------------------
\* encoding/json, as called by WriteJSONCode and by the readers of a response
\* ------------------------------------------------------------------------

\* A Go string is a sequence of bytes.  The strings of this module are ASCII:
\* the character ~ stands for a byte that is not part of any valid UTF-8
\* sequence (such as 0xFF) and the character @ for U+FFFD; no other text here
\* contains them.
InvalidByte == "~"

ReplacementChar == "@"

\* The values handed to the encoder.
JStr(s) == [t |-> "str", s |-> s]

JNum(n) == [t |-> "num", n |-> n]

JArr(a) == [t |-> "arr", a |-> a]

JObj(m) == [t |-> "obj", m |-> m]

\* A value of a type the encoder does not support: a channel.
JChan == [t |-> "chan"]

\* A JSON string literal: quote, backslash and control characters are
\* escaped, the characters <, > and & are written as \u escapes, and an
\* invalid byte is replaced by U+FFFD.
RECURSIVE EncodeChars(_)
EncodeChars(s) ==
  IF Len(s) = 0 THEN ""
  ELSE LET c == Ch(s, 1)
           q == CASE c = "\"" -> "\\\""
                  [] c = "\\" -> "\\\\"
                  [] c = "\n" -> "\\n"
                  [] c = "\t" -> "\\t"
                  [] c = "<"  -> "\\u003c"
                  [] c = ">"  -> "\\u003e"
                  [] c = "&"  -> "\\u0026"
                  [] c = InvalidByte -> "\\ufffd"
                  [] OTHER    -> c
       IN  q \o EncodeChars(Drop(s, 1))

EncodeString(s) == "\"" \o EncodeChars(s) \o "\""

\* The order of two characters of a map key, and of two keys (the encoder
\* writes the keys of a map sorted).
Alphabet == "abcdefghijklmnopqrstuvwxyz"

CharRank(c) ==
  IF \E i \in 1..Len(Alphabet) : Ch(Alphabet, i) = c
  THEN CHOOSE i \in 1..Len(Alphabet) : Ch(Alphabet, i) = c
  ELSE 0

RECURSIVE KeyLess(_, _)
KeyLess(a, b) ==
  IF Len(b) = 0 THEN FALSE
  ELSE IF Len(a) = 0 THEN TRUE
  ELSE IF Ch(a, 1) # Ch(b, 1) THEN CharRank(Ch(a, 1)) < CharRank(Ch(b, 1))
  ELSE KeyLess(Drop(a, 1), Drop(b, 1))

RECURSIVE SortedKeys(_)
SortedKeys(S) ==
  IF S = {} THEN <<>>
  ELSE LET k == CHOOSE x \in S : \A y \in S \ {x} : KeyLess(x, y)
       IN  <<k>> \o SortedKeys(S \ {k})

RECURSIVE Spaces(_)
Spaces(n) == IF n = 0 THEN "" ELSE " " \o Spaces(n - 1)

\* json.MarshalIndent(v, "", "  "), at nesting depth d.
RECURSIVE Marshal(_, _), MarshalElems(_, _), MarshalMembers(_, _, _)
Marshal(v, d) ==
  CASE v.t = "str" -> EncodeString(v.s)
    [] v.t = "num" -> Itoa(v.n)
    [] v.t = "arr" ->
         IF Len(v.a) = 0 THEN "[]"
         ELSE "[\n" \o MarshalElems(v.a, d + 1) \o "\n" \o Spaces(2 * d) \o "]"
    [] v.t = "obj" ->
         IF DOMAIN v.m = {} THEN "{}"
         ELSE "{\n" \o MarshalMembers(v.m, SortedKeys(DOMAIN v.m), d + 1)
                    \o "\n" \o Spaces(2 * d) \o "}"

MarshalElems(a, d) ==
  Spaces(2 * d) \o Marshal(a[1], d)
    \o (IF Len(a) = 1 THEN "" ELSE ",\n" \o MarshalElems(Tail(a), d))

MarshalMembers(m, keys, d) ==
  Spaces(2 * d) \o EncodeString(keys[1]) \o ": " \o Marshal(m[keys[1]], d)
    \o (IF Len(keys) = 1 THEN "" ELSE ",\n" \o MarshalMembers(m, Tail(keys), d))

\* The value holds a value of an unsupported type.
RECURSIVE Unsupported(_)
Unsupported(v) ==
  CASE v.t = "chan" -> TRUE
    [] v.t = "arr" -> \E i \in 1..Len(v.a) : Unsupported(v.a[i])
    [] v.t = "obj" -> \E k \in DOMAIN v.m : Unsupported(v.m[k])
    [] OTHER -> FALSE

\* The error of json.MarshalIndent: an UnsupportedTypeError, or nil.
MarshalError(v) ==
  IF Unsupported(v) THEN [kind |-> "UnsupportedTypeError", s |-> "json: unsupported type: chan int"]
  ELSE Nil

\* The bytes of json.MarshalIndent: none when it returns an error.
MarshalIndent(v) == IF MarshalError(v) # Nil THEN "" ELSE Marshal(v, 0)

\* --- decoding ---

IsSpace(c) == c \in {" ", "\n", "\t", "\r"}

RECURSIVE SkipSpace(_)
SkipSpace(s) == IF Len(s) > 0 /\ IsSpace(Ch(s, 1)) THEN SkipSpace(Drop(s, 1)) ELSE s

DecodeFail == [ok |-> FALSE, v |-> JStr(""), rest |-> ""]

Hex4(h) ==
  CASE h = "003c" -> "<" [] h = "003e" -> ">" [] h = "0026" -> "&"
    [] h = "fffd" -> ReplacementChar
    [] OTHER -> "?"

\* The characters of a string literal up to its closing quote.
RECURSIVE DecodeChars(_, _)
DecodeChars(s, acc) ==
  IF Len(s) = 0 THEN DecodeFail
  ELSE LET c == Ch(s, 1)
       IN  IF c = "\"" THEN [ok |-> TRUE, v |-> JStr(acc), rest |-> Drop(s, 1)]
           ELSE IF c # "\\" THEN DecodeChars(Drop(s, 1), acc \o c)
           ELSE IF Len(s) < 2 THEN DecodeFail
           ELSE LET e == Ch(s, 2)
                IN  IF e = "u"
                    THEN IF Len(s) < 6 THEN DecodeFail
                         ELSE DecodeChars(Drop(s, 6), acc \o Hex4(SubSeq(s, 3, 6)))
                    ELSE IF e \in {"\"", "\\", "/"} THEN DecodeChars(Drop(s, 2), acc \o e)
                    ELSE IF e = "n" THEN DecodeChars(Drop(s, 2), acc \o "\n")
                    ELSE IF e = "t" THEN DecodeChars(Drop(s, 2), acc \o "\t")
                    ELSE DecodeFail

\* A JSON document read into the values above: objects, arrays, strings and
\* integers.
RECURSIVE DecodeValue(_), DecodeElems(_, _), DecodeMembers(_, _)
DecodeValue(s0) ==
  LET s == SkipSpace(s0)
  IN  IF Len(s) = 0 THEN DecodeFail
      ELSE LET c == Ch(s, 1)
           IN  IF c = "\"" THEN DecodeChars(Drop(s, 1), "")
               ELSE IF IsDigit(c) \/ c = "-"
                 THEN LET neg == c = "-"
                          ds  == LeadingDigits(IF neg THEN Drop(s, 1) ELSE s)
                          n   == DigitsToNat(ds)
                      IN  IF Len(ds) = 0 THEN DecodeFail
                          ELSE [ok |-> TRUE, v |-> JNum(IF neg THEN 0 - n ELSE n),
                                rest |-> Drop(s, Len(ds) + (IF neg THEN 1 ELSE 0))]
               ELSE IF c = "["
                 THEN LET t == SkipSpace(Drop(s, 1))
                      IN  IF Len(t) > 0 /\ Ch(t, 1) = "]"
                          THEN [ok |-> TRUE, v |-> JArr(<<>>), rest |-> Drop(t, 1)]
                          ELSE DecodeElems(t, <<>>)
               ELSE IF c = "{"
                 THEN LET t == SkipSpace(Drop(s, 1))
                      IN  IF Len(t) > 0 /\ Ch(t, 1) = "}"
                          THEN [ok |-> TRUE, v |-> JObj(EmptyMap), rest |-> Drop(t, 1)]
                          ELSE DecodeMembers(t, EmptyMap)
               ELSE DecodeFail

DecodeElems(s, acc) ==
  LET e == DecodeValue(s)
      t == SkipSpace(e.rest)
  IN  IF ~e.ok \/ Len(t) = 0 THEN DecodeFail
      ELSE IF Ch(t, 1) = "," THEN DecodeElems(Drop(t, 1), Append(acc, e.v))
      ELSE IF Ch(t, 1) = "]" THEN [ok |-> TRUE, v |-> JArr(Append(acc, e.v)), rest |-> Drop(t, 1)]
      ELSE DecodeFail

DecodeMembers(s0, acc) ==
  LET s == SkipSpace(s0)
      k == IF Len(s) > 0 /\ Ch(s, 1) = "\"" THEN DecodeChars(Drop(s, 1), "") ELSE DecodeFail
      c == SkipSpace(k.rest)
      e == IF k.ok /\ Len(c) > 0 /\ Ch(c, 1) = ":" THEN DecodeValue(Drop(c, 1)) ELSE DecodeFail
      t == SkipSpace(e.rest)
      m == [x \in DOMAIN acc \cup {k.v.s} |-> IF x = k.v.s THEN e.v ELSE acc[x]]
  IN  IF ~k.ok \/ ~e.ok \/ Len(t) = 0 THEN DecodeFail
      ELSE IF Ch(t, 1) = "," THEN DecodeMembers(Drop(t, 1), m)
      ELSE IF Ch(t, 1) = "}" THEN [ok |-> TRUE, v |-> JObj(m), rest |-> Drop(t, 1)]
      ELSE DecodeFail

\* json.NewDecoder(body).Decode: the first JSON value of the body.
Decode(body) == DecodeValue(body)

\* ------------------------------------------------------------------------
\* The response sink (an httptest.ResponseRecorder behind http.ResponseWriter)
\* ------------------------------------------------------------------------

\* httptest.NewRecorder(): status 200 until a header is written.  Calls is the
\* sequence of calls the sink has received.
NewRecorder ==
  [Code |-> StatusOK, wroteHeader |-> FALSE, HeaderMap |-> EmptyMap,
   snapHeader |-> EmptyMap, Body |-> "", Calls |-> <<>>]

\* w.Header().Set(name, value)
HeaderSet(w, name, value) ==
  [w EXCEPT !.HeaderMap = [k \in DOMAIN w.HeaderMap \cup {name} |->
                             IF k = name THEN value ELSE w.HeaderMap[k]],
            !.Calls = Append(w.Calls, [op |-> "Header.Set", name |-> name, value |-> value])]

\* w.WriteHeader(code): the first status written is the status of the
\* response, and the headers set so far are the headers of the response.
WriteHeader(w, code) ==
  LET logged == [w EXCEPT !.Calls = Append(w.Calls, [op |-> "WriteHeader", code |-> code])]
  IN  IF w.wroteHeader THEN logged
      ELSE [logged EXCEPT !.Code = code, !.wroteHeader = TRUE, !.snapHeader = w.HeaderMap]

\* w.Write(b): writes the header with status 200 when none was written.
Write(w, b) ==
  LET h == IF w.wroteHeader THEN w
           ELSE [w EXCEPT !.Code = StatusOK, !.wroteHeader = TRUE, !.snapHeader = w.HeaderMap]
  IN  [h EXCEPT !.Body = h.Body \o b,
                !.Calls = Append(h.Calls, [op |-> "Write", b |-> b])]

\* fmt.Fprint(w, s) and fmt.Fprintf(w, format, a): one Write of the text.
Fprint(w, s) == Write(w, s)

Fprintf_Unformatted(w, format, a) == Write(w, a)

Fprintf(w, format, a) == Write(w, Sprintf(format, a))

\* ------------------------------------------------------------------------
\* httputil.go and errors.go: the responders and the recovery hooks
\* ------------------------------------------------------------------------

WriteJSONCode_StatusFirst(w, code, data) ==
  LET js == MarshalIndent(data)
      w1 == WriteHeader(w, code)
      w2 == HeaderSet(w1, "Content-Type", "application/json")
      w3 == Write(w2, js)
  IN  Write(w3, "\n")

WriteJSONCode_Checked(w, code, data) ==
  LET js == MarshalIndent(data)
      w1 == HeaderSet(w, "Content-Type", "application/json")
      w2 == WriteHeader(w1, IF MarshalError(data) # Nil THEN StatusInternalServerError ELSE code)
      w3 == Write(w2, js)
  IN  Write(w3, "\n")

WriteJSONCode(w, code, data) ==
  LET js == MarshalIndent(data)
      w1 == HeaderSet(w, "Content-Type", "application/json")
      w2 == WriteHeader(w1, code)
      w3 == Write(w2, js)
  IN  Write(w3, "\n")

WriteJSON(w, data) == WriteJSONCode(w, StatusOK, data)

WriteError_NoStatus(w, err) ==
  Fprintf(w, "<h1>%s</h1>", Sprint(err))

WriteError(w, err) ==
  LET code == IF IsHTTPCoder(err) THEN HTTPCode(err) ELSE StatusInternalServerError
      w1 == WriteHeader(w, code)
  IN  Fprintf(w1, "<h1>%s</h1>", Sprint(err))

\* []string as a JSON array of strings.
RECURSIVE JStrings(_)
JStrings(d) == IF Len(d) = 0 THEN <<>> ELSE <<JStr(d[1])>> \o JStrings(Tail(d))

WriteJSONError_Details(w, err) ==
  LET code == IF IsHTTPCoder(err) THEN HTTPCode(err) ELSE StatusInternalServerError
      details == IF IsHTTPErrorDetails(err) THEN ErrorDetails(err) ELSE <<>>
      msg == Sprint(err)
      innerErr == [k \in {"code", "message", "details"} |->
                     CASE k = "code" -> JNum(code)
                       [] k = "message" -> JStr(msg)
                       [] k = "details" -> JArr(JStrings(details))]
  IN  WriteJSONCode(w, code, JObj([k \in {"error"} |-> JObj(innerErr)]))

WriteJSONError_Chain(w, err) ==
  LET src == IF ~IsHTTPCoder(err) /\ HasUnwrap(err) /\ IsHTTPCoder(Unwrap(err))
             THEN Unwrap(err) ELSE err
      code == IF IsHTTPCoder(src) THEN HTTPCode(src) ELSE StatusInternalServerError
      details == IF IsHTTPErrorDetails(src) THEN ErrorDetails(src) ELSE <<>>
      msg == Sprint(err)
      innerErr == IF Len(details) > 0
                  THEN [k \in {"code", "message", "details"} |->
                          CASE k = "code" -> JNum(code)
                            [] k = "message" -> JStr(msg)
                            [] k = "details" -> JArr(JStrings(details))]
                  ELSE [k \in {"code", "message"} |->
                          CASE k = "code" -> JNum(code)
                            [] k = "message" -> JStr(msg)]
  IN  WriteJSONCode(w, code, JObj([k \in {"error"} |-> JObj(innerErr)]))

WriteJSONError(w, err) ==
  LET code == IF IsHTTPCoder(err) THEN HTTPCode(err) ELSE StatusInternalServerError
      details == IF IsHTTPErrorDetails(err) THEN ErrorDetails(err) ELSE <<>>
      msg == Sprint(err)
      innerErr == IF Len(details) > 0
                  THEN [k \in {"code", "message", "details"} |->
                          CASE k = "code" -> JNum(code)
                            [] k = "message" -> JStr(msg)
                            [] k = "details" -> JArr(JStrings(details))]
                  ELSE [k \in {"code", "message"} |->
                          CASE k = "code" -> JNum(code)
                            [] k = "message" -> JStr(msg)]
  IN  WriteJSONCode(w, code, JObj([k \in {"error"} |-> JObj(innerErr)]))

Recover_Always(w, r, err) ==
  [w |-> WriteError(w, err), recovered |-> TRUE]

\* The deferred hooks.  err is what recover() returns in the deferred call:
\* the payload of the panic in flight, nil when there is none.  The panic
\* is stopped by the call of recover().
Recover(w, r, err) ==
  [w |-> IF err.kind # "nil" THEN WriteError(w, err) ELSE w, recovered |-> TRUE]

RecoverJSON(w, r, err) ==
  [w |-> IF err.kind # "nil" THEN WriteJSONError(w, err) ELSE w, recovered |-> TRUE]


\* ------------------------------------------------------------------------
\* BearerToken
\* ------------------------------------------------------------------------

UpperCase == "ABCDEFGHIJKLMNOPQRSTUVWXYZ"

\* strings.ToLower on ASCII text: a capital letter becomes its small letter,
\* every other character stays.
LowerChar(c) ==
  IF \E i \in 1..Len(UpperCase) : Ch(UpperCase, i) = c
  THEN Ch(Alphabet, CHOOSE i \in 1..Len(UpperCase) : Ch(UpperCase, i) = c)
  ELSE c

RECURSIVE ToLower(_)
ToLower(s) == IF Len(s) = 0 THEN "" ELSE LowerChar(Ch(s, 1)) \o ToLower(Drop(s, 1))

\* r.Header.Get(name): the first value of the header, "" when there is none.
HeaderGet(r, name) ==
  IF name \in DOMAIN r.Header /\ Len(r.Header[name]) > 0 THEN r.Header[name][1] ELSE ""

\* BearerToken(r): the token and whether there is one.
BearerToken_Lowered(r) ==
  LET prefix == "bearer "
      auth   == ToLower(HeaderGet(r, "Authorization"))
      ts     == Drop(auth, Len(prefix))
  IN  IF auth = "" \/ ~HasPrefix(auth, prefix) THEN <<"", FALSE>>
      ELSE IF ts = "" THEN <<"", FALSE>>
      ELSE <<ts, TRUE>>

BearerToken(r) ==
  LET prefix == "bearer "
      auth   == HeaderGet(r, "Authorization")
      ts     == Drop(auth, Len(prefix))
  IN  IF auth = "" \/ ~HasPrefix(ToLower(auth), prefix) THEN <<"", FALSE>>
      ELSE IF ts = "" THEN <<"", FALSE>>
      ELSE <<ts, TRUE>>

\* ------------------------------------------------------------------------
\* encoding/json, as called by ReadJSON: the scanner of a json.Decoder
\* ------------------------------------------------------------------------

\* The documents read here are made of objects, strings with the simple
\* escapes, and integers; the other forms of JSON (arrays, the
\* literals, fractions, \u escapes) take no part.

\* quoteChar of the scanner: the character in single quotes.
QuoteChar(c) ==
  IF c = "'" THEN "'\\''"
  ELSE IF c = "\"" THEN "'\"'"
  ELSE "'" \o QuoteBody(c) \o "'"

\* What the scanner knows of the bytes it has seen: the value ends after n
\* bytes ("end"), the bytes are no JSON ("error", with the text of the
\* SyntaxError), or more bytes are needed ("more"; whole tells whether the
\* bytes seen are a complete number or string that only the end of the
\* input can close).
ScanEnd(n) == [st |-> "end", msg |-> "", n |-> n, whole |-> TRUE]

ScanError(c, context) ==
  [st |-> "error", msg |-> "invalid character " \o QuoteChar(c) \o " " \o context,
   n |-> 0, whole |-> FALSE]

ScanMore(whole) == [st |-> "more", msg |-> "", n |-> 0, whole |-> whole]

\* The parse state on top of the stack replaced by t; the stack without it.
SetTop(stack, t) == [stack EXCEPT ![Len(stack)] = t]

Pop(stack) == SubSeq(stack, 1, Len(stack) - 1)

\* The step functions of the scanner, one byte c at position i each.
RECURSIVE Scan(_, _, _, _)
StepEndValue(data, i, c, stack) ==
  IF Len(stack) = 0 THEN ScanEnd(i - 1)
  ELSE IF IsSpace(c) THEN Scan(data, i + 1, "EndValue", stack)
  ELSE IF stack[Len(stack)] = "key"
    THEN IF c = ":" THEN Scan(data, i + 1, "BeginValue", SetTop(stack, "value"))
         ELSE ScanError(c, "after object key")
  ELSE IF c = "," THEN Scan(data, i + 1, "BeginString", SetTop(stack, "key"))
  ELSE IF c = "}"
    THEN IF Len(stack) = 1 THEN ScanEnd(i) ELSE Scan(data, i + 1, "EndValue", Pop(stack))
  ELSE ScanError(c, "after object key:value pair")

StepBeginValue(data, i, c, stack) ==
  IF IsSpace(c) THEN Scan(data, i + 1, "BeginValue", stack)
  ELSE IF c = "{" THEN Scan(data, i + 1, "BeginStringOrEmpty", Append(stack, "key"))
  ELSE IF c = "\"" THEN Scan(data, i + 1, "InString", stack)
  ELSE IF c = "-" THEN Scan(data, i + 1, "Neg", stack)
  ELSE IF c = "0" THEN Scan(data, i + 1, "Zero", stack)
  ELSE IF IsDigit(c) THEN Scan(data, i + 1, "Int", stack)
  ELSE ScanError(c, "looking for beginning of value")

StepNeg(data, i, c, stack) ==
  IF c = "0" THEN Scan(data, i + 1, "Zero", stack)
  ELSE IF IsDigit(c) THEN Scan(data, i + 1, "Int", stack)
  ELSE ScanError(c, "in numeric literal")

StepBeginString(data, i, c, stack) ==
  IF IsSpace(c) THEN Scan(data, i + 1, "BeginString", stack)
  ELSE IF c = "\"" THEN Scan(data, i + 1, "InString", stack)
  ELSE ScanError(c, "looking for beginning of object key string")

StepBeginStringOrEmpty(data, i, c, stack) ==
  IF IsSpace(c) THEN Scan(data, i + 1, "BeginStringOrEmpty", stack)
  ELSE IF c = "}" THEN StepEndValue(data, i, c, SetTop(stack, "value"))
  ELSE StepBeginString(data, i, c, stack)

StepInString(data, i, c, stack) ==
  IF c = "\"" THEN Scan(data, i + 1, "EndValue", stack)
  ELSE IF c = "\\" THEN Scan(data, i + 1, "InStringEsc", stack)
  ELSE IF c \in {"\n", "\t", "\r"} THEN ScanError(c, "in string literal")
  ELSE Scan(data, i + 1, "InString", stack)

StepInStringEsc(data, i, c, stack) ==
  IF c \in {"b", "f", "n", "r", "t", "\\", "/", "\""} THEN Scan(data, i + 1, "InString", stack)
  ELSE ScanError(c, "in string escape code")

StepInt(data, i, c, stack) ==
  IF IsDigit(c) THEN Scan(data, i + 1, "Int", stack)
  ELSE StepEndValue(data, i, c, stack)

Step(data, i, c, state, stack) ==
  CASE state = "BeginValue" -> StepBeginValue(data, i, c, stack)
    [] state = "BeginStringOrEmpty" -> StepBeginStringOrEmpty(data, i, c, stack)
    [] state = "BeginString" -> StepBeginString(data, i, c, stack)
    [] state = "InString" -> StepInString(data, i, c, stack)
    [] state = "InStringEsc" -> StepInStringEsc(data, i, c, stack)
    [] state = "Neg" -> StepNeg(data, i, c, stack)
    [] state = "Int" -> StepInt(data, i, c, stack)
    [] state = "Zero" -> StepEndValue(data, i, c, stack)
    [] state = "EndValue" -> StepEndValue(data, i, c, stack)

\* The scanner run over data from position i on.
Scan(data, i, state, stack) ==
  IF i > Len(data)
  THEN ScanMore(Len(stack) = 0 /\ state \in {"EndValue", "Int", "Zero"})
  ELSE Step(data, i, Ch(data, i), state, stack)

\* Decoder.readValue on the bytes read so far.
ReadValue(data) == Scan(data, 1, "BeginValue", <<>>)

\* The bytes hold something other than white space.
NonSpace(data) == \E i \in 1..Len(data) : ~IsSpace(Ch(data, i))

\* The errors of a Decode: io.EOF, io.ErrUnexpectedEOF, a *json.SyntaxError
\* and a *json.UnmarshalTypeError, each an error with its text.
EOF == ErrorString("EOF")

ErrUnexpectedEOF == ErrorString("unexpected EOF")

SyntaxError(msg) == ErrorString(msg)

UnmarshalTypeError(value, field) ==
  ErrorString("json: cannot unmarshal " \o value \o " into Go "
              \o (IF field = "" THEN "value of type httputil.coding"
                  ELSE "struct field coding." \o field \o " of type string"))

\* ------------------------------------------------------------------------
\* The destination of the tests: struct { Message string `json:"message"` }
\* ------------------------------------------------------------------------

coding == [Message |-> ""]

\* The name of a JSON value in an UnmarshalTypeError.
ValueName(v) ==
  CASE v.t = "str" -> "string" [] v.t = "num" -> "number"
    [] v.t = "arr" -> "array" [] v.t = "obj" -> "object"

\* The keys of an object that name the field: the tag, in any case.
FieldKeys(m) == {k \in DOMAIN m : ToLower(k) = "message"}

\* The field of dst set from the member of the object.
SetMessage(dst, v) ==
  IF v.t = "str" THEN [err |-> Nil, dst |-> [dst EXCEPT !.Message = v.s]]
  ELSE [err |-> UnmarshalTypeError(ValueName(v), "message"), dst |-> dst]

\* json.Unmarshal of one decoded value into a coding.
Unmarshal(v, dst) ==
  IF v.t # "obj" THEN [err |-> UnmarshalTypeError(ValueName(v), ""), dst |-> dst]
  ELSE IF FieldKeys(v.m) = {} THEN [err |-> Nil, dst |-> dst]
  ELSE SetMessage(dst, v.m[CHOOSE k \in FieldKeys(v.m) : TRUE])

\* Decoder.Decode(dst) once the reads have ended: s is what the scanner knows
\* of data, the bytes read; eof tells that the last Read returned io.EOF.
DecodeScanned(s, data, dst) ==
  CASE s.st = "error" -> [err |-> SyntaxError(s.msg), dst |-> dst]
    [] s.st = "end" -> Unmarshal(Decode(Take(data, s.n)).v, dst)
    [] s.st = "more" /\ s.whole -> Unmarshal(Decode(data).v, dst)
    [] s.st = "more" /\ ~s.whole /\ NonSpace(data) -> [err |-> ErrUnexpectedEOF, dst |-> dst]
    [] OTHER -> [err |-> EOF, dst |-> dst]

DecodeRead(data, dst) == DecodeScanned(ReadValue(data), data, dst)

\* The decoder asks for another Read: the bytes so far neither end a value
\* nor are an error, and no Read has returned io.EOF.
WantsRead(data, eof) == ReadValue(data).st = "more" /\ ~eof

\* ------------------------------------------------------------------------
\* httputil.go: ReadJSON and MustReadJSON
\* ------------------------------------------------------------------------

\* fmt.Sprintf with two operands, the verbs %v and %s.
RECURSIVE Sprintf2(_, _, _)
Sprintf2(format, a, b) ==
  IF Len(format) = 0 THEN ""
  ELSE IF HasPrefix(format, "%v") \/ HasPrefix(format, "%s")
    THEN a \o Sprintf(Drop(format, 2), b)
  ELSE Ch(format, 1) \o Sprintf2(Drop(format, 1), a, b)

\* fmt.Errorf(format, err, b): a new error with the formatted text.
Errorf(format, err, b) == ErrorString(Sprintf2(format, Error(err), b))

\* io.LimitReader(body, n): the bytes of body it lets through.
LimitReader_Unlimited(body, n) == body

LimitReader(body, n) == Take(body, IF Len(body) < n THEN Len(body) ELSE n)

\* ------------------------------------------------------------------------
\* testutil.go: EqualJSON
\* ------------------------------------------------------------------------

\* The scanner outside a decoder: the bytes are one JSON value, with white
\* space around it at most.
Valid(data) ==
  \/ ReadValue(data).st = "end" /\ ~NonSpace(Drop(data, ReadValue(data).n))
  \/ ReadValue(data).st = "more" /\ ReadValue(data).whole

\* The error json.Compact returns for bytes that are not valid.
CompactError(data) ==
  IF ReadValue(data).st = "error" THEN SyntaxError(ReadValue(data).msg)
  ELSE IF ReadValue(data).st = "end"
    THEN SyntaxError("invalid character "
                     \o QuoteChar(Ch(SkipSpace(Drop(data, ReadValue(data).n)), 1))
                     \o " after top-level value")
  ELSE SyntaxError("unexpected end of JSON input")

\* The bytes json.Compact copies: all but the white space between the
\* tokens; white space in a string literal is copied.
RECURSIVE CompactBytes(_, _, _)
CompactBytes(src, inString, escaped) ==
  IF Len(src) = 0 THEN ""
  ELSE IF inString
    THEN Ch(src, 1) \o CompactBytes(Drop(src, 1), escaped \/ Ch(src, 1) # "\"",
                                    ~escaped /\ Ch(src, 1) = "\\")
  ELSE IF IsSpace(Ch(src, 1)) THEN CompactBytes(Drop(src, 1), FALSE, FALSE)
  ELSE Ch(src, 1) \o CompactBytes(Drop(src, 1), Ch(src, 1) = "\"", FALSE)

\* json.Compact(&dst, src)
Compact(src) ==
  IF Valid(src) THEN [err |-> Nil, dst |-> CompactBytes(src, FALSE, FALSE)]
  ELSE [err |-> CompactError(src), dst |-> ""]

\* EqualJSON(a, b); a nil slice and an empty one are both "".
EqualJSON_Bytes(a, b) ==
  IF Len(a) = 0 /\ Len(b) = 0 THEN TRUE
  ELSE IF Compact(a).err # Nil THEN FALSE
  ELSE IF Compact(b).err # Nil THEN FALSE
  ELSE a = b

EqualJSON(a, b) ==
  IF Len(a) = 0 /\ Len(b) = 0 THEN TRUE
  ELSE IF Compact(a).err # Nil THEN FALSE
  ELSE IF Compact(b).err # Nil THEN FALSE
  ELSE Compact(a).dst = Compact(b).dst
\* ------------------------------------------------------------------------
\* The accessor family of params.go by extractor, input source and mode
\* ------------------------------------------------------------------------

\* Every accessor of params.go.
Accessors ==
  {"MustFormString", "MustFormBool", "MustFormInt", "MustFormInt32",
   "MustFormInt64", "MustFormFloat32", "MustFormFloat64", "MustFormTime",
   "MustFormTimeWithDefault", "MustFormDuration",
   "MustFormDurationWithDefault", "FormString", "FormBool", "FormInt",
   "FormInt32", "FormInt64", "FormFloat32", "FormFloat64", "FormTime",
   "FormDuration", "MustQueryString", "MustQueryBool", "MustQueryInt",
   "MustQueryInt32", "MustQueryInt64", "MustQueryFloat32",
   "MustQueryFloat64", "MustQueryTime", "MustQueryTimeWithDefault",
   "MustQueryDuration", "MustQueryDurationWithDefault", "QueryString",
   "QueryStringArray", "QueryBool", "QueryInt", "QueryInt32", "QueryInt64",
   "QueryFloat32", "QueryFloat64", "QueryTime", "QueryTimeWithDefault",
   "QueryDuration", "QueryDurationWithDefault", "MustParamsString",
   "MustParamsBool", "MustParamsInt", "MustParamsInt32", "MustParamsInt64",
   "MustParamsFloat32", "MustParamsFloat64", "MustParamsTime",
   "MustParamsTimeWithDefault", "MustParamsDuration",
   "MustParamsDurationWithDefault", "ParamsString", "ParamsBool",
   "ParamsInt", "ParamsInt32", "ParamsInt64", "ParamsFloat32",
   "ParamsFloat64", "ParamsTime", "ParamsDuration"}

\* The accessors that read r.FormValue.
FormAccessors ==
  {"MustFormString", "MustFormBool", "MustFormInt", "MustFormInt32",
   "MustFormInt64", "MustFormFloat32", "MustFormFloat64", "MustFormTime",
   "MustFormTimeWithDefault", "MustFormDuration",
   "MustFormDurationWithDefault", "FormString", "FormBool", "FormInt",
   "FormInt32", "FormInt64", "FormFloat32", "FormFloat64", "FormTime",
   "FormDuration"}

\* The accessors that read r.URL.Query().
QueryAccessors ==
  {"MustQueryString", "MustQueryBool", "MustQueryInt", "MustQueryInt32",
   "MustQueryInt64", "MustQueryFloat32", "MustQueryFloat64",
   "MustQueryTime", "MustQueryTimeWithDefault", "MustQueryDuration",
   "MustQueryDurationWithDefault", "QueryString", "QueryStringArray",
   "QueryBool", "QueryInt", "QueryInt32", "QueryInt64", "QueryFloat32",
   "QueryFloat64", "QueryTime", "QueryTimeWithDefault", "QueryDuration",
   "QueryDurationWithDefault"}

\* The accessors that read mux.Vars(r).
ParamsAccessors ==
  {"MustParamsString", "MustParamsBool", "MustParamsInt", "MustParamsInt32",
   "MustParamsInt64", "MustParamsFloat32", "MustParamsFloat64",
   "MustParamsTime", "MustParamsTimeWithDefault", "MustParamsDuration",
   "MustParamsDurationWithDefault", "ParamsString", "ParamsBool",
   "ParamsInt", "ParamsInt32", "ParamsInt64", "ParamsFloat32",
   "ParamsFloat64", "ParamsTime", "ParamsDuration"}

\* The accessors that panic on a missing or an invalid parameter.
MustAccessors ==
  {"MustFormString", "MustFormBool", "MustFormInt", "MustFormInt32",
   "MustFormInt64", "MustFormFloat32", "MustFormFloat64", "MustFormTime",
   "MustFormTimeWithDefault", "MustFormDuration",
   "MustFormDurationWithDefault", "MustQueryString", "MustQueryBool",
   "MustQueryInt", "MustQueryInt32", "MustQueryInt64", "MustQueryFloat32",
   "MustQueryFloat64", "MustQueryTime", "MustQueryTimeWithDefault",
   "MustQueryDuration", "MustQueryDurationWithDefault", "MustParamsString",
   "MustParamsBool", "MustParamsInt", "MustParamsInt32", "MustParamsInt64",
   "MustParamsFloat32", "MustParamsFloat64", "MustParamsTime",
   "MustParamsTimeWithDefault", "MustParamsDuration",
   "MustParamsDurationWithDefault"}

\* The accessors with a layout argument.
LayoutAccessors ==
  {"MustFormTime", "MustFormTimeWithDefault", "FormTime", "MustQueryTime",
   "MustQueryTimeWithDefault", "QueryTime", "QueryTimeWithDefault",
   "MustParamsTime", "MustParamsTimeWithDefault", "ParamsTime"}

\* The accessors with a defaultValue argument.
DefaultAccessors ==
  {"MustFormTimeWithDefault", "MustFormDurationWithDefault", "FormString",
   "FormBool", "FormInt", "FormInt32", "FormInt64", "FormFloat32",
   "FormFloat64", "FormTime", "FormDuration", "MustQueryTimeWithDefault",
   "MustQueryDurationWithDefault", "QueryString", "QueryStringArray",
   "QueryBool", "QueryInt", "QueryInt32", "QueryInt64", "QueryFloat32",
   "QueryFloat64", "QueryTimeWithDefault", "QueryDurationWithDefault",
   "MustParamsTimeWithDefault", "MustParamsDurationWithDefault",
   "ParamsString", "ParamsBool", "ParamsInt", "ParamsInt32", "ParamsInt64",
   "ParamsFloat32", "ParamsFloat64", "ParamsTime", "ParamsDuration"}

\* The result type of an accessor.
ResultType(fn) ==
  CASE fn \in {"MustFormString", "FormString", "MustQueryString", "QueryString", "MustParamsString", "ParamsString"} -> "string"
    [] fn \in {"MustFormBool", "FormBool", "MustQueryBool", "QueryBool", "MustParamsBool", "ParamsBool"} -> "bool"
    [] fn \in {"MustFormInt", "FormInt", "MustQueryInt", "QueryInt", "MustParamsInt", "ParamsInt"} -> "int"
    [] fn \in {"MustFormInt32", "FormInt32", "MustQueryInt32", "QueryInt32", "MustParamsInt32", "ParamsInt32"} -> "int32"
    [] fn \in {"MustFormInt64", "FormInt64", "MustQueryInt64", "QueryInt64", "MustParamsInt64", "ParamsInt64"} -> "int64"
    [] fn \in {"MustFormFloat32", "FormFloat32", "MustQueryFloat32", "QueryFloat32", "MustParamsFloat32", "ParamsFloat32"} -> "float32"
    [] fn \in {"MustFormFloat64", "FormFloat64", "MustQueryFloat64", "QueryFloat64", "MustParamsFloat64", "ParamsFloat64"} -> "float64"
    [] fn \in {"MustFormTime", "MustFormTimeWithDefault", "FormTime", "MustQueryTime", "MustQueryTimeWithDefault", "QueryTime", "QueryTimeWithDefault", "MustParamsTime", "MustParamsTimeWithDefault", "ParamsTime"} -> "time"
    [] fn \in {"MustFormDuration", "MustFormDurationWithDefault", "FormDuration", "MustQueryDuration", "MustQueryDurationWithDefault", "QueryDuration", "QueryDurationWithDefault", "MustParamsDuration", "MustParamsDurationWithDefault", "ParamsDuration"} -> "duration"
    [] fn \in {"QueryStringArray"} -> "strings"

\* The call fn(r, key[, layout][, defaultValue]) of an accessor.
Invoke(fn, r, key, layout, defaultValue) ==
  CASE fn = "MustFormString" -> MustFormString(r, key)
    [] fn = "MustFormBool" -> MustFormBool(r, key)
    [] fn = "MustFormInt" -> MustFormInt(r, key)
    [] fn = "MustFormInt32" -> MustFormInt32(r, key)
    [] fn = "MustFormInt64" -> MustFormInt64(r, key)
    [] fn = "MustFormFloat32" -> MustFormFloat32(r, key)
    [] fn = "MustFormFloat64" -> MustFormFloat64(r, key)
    [] fn = "MustFormTime" -> MustFormTime(r, key, layout)
    [] fn = "MustFormTimeWithDefault" -> MustFormTimeWithDefault(r, key, layout, defaultValue)
    [] fn = "MustFormDuration" -> MustFormDuration(r, key)
    [] fn = "MustFormDurationWithDefault" -> MustFormDurationWithDefault(r, key, defaultValue)
    [] fn = "FormString" -> FormString(r, key, defaultValue)
    [] fn = "FormBool" -> FormBool(r, key, defaultValue)
    [] fn = "FormInt" -> FormInt(r, key, defaultValue)
    [] fn = "FormInt32" -> FormInt32(r, key, defaultValue)
    [] fn = "FormInt64" -> FormInt64(r, key, defaultValue)
    [] fn = "FormFloat32" -> FormFloat32(r, key, defaultValue)
    [] fn = "FormFloat64" -> FormFloat64(r, key, defaultValue)
    [] fn = "FormTime" -> FormTime(r, key, layout, defaultValue)
    [] fn = "FormDuration" -> FormDuration(r, key, defaultValue)
    [] fn = "MustQueryString" -> MustQueryString(r, key)
    [] fn = "MustQueryBool" -> MustQueryBool(r, key)
    [] fn = "MustQueryInt" -> MustQueryInt(r, key)
    [] fn = "MustQueryInt32" -> MustQueryInt32(r, key)
    [] fn = "MustQueryInt64" -> MustQueryInt64(r, key)
    [] fn = "MustQueryFloat32" -> MustQueryFloat32(r, key)
    [] fn = "MustQueryFloat64" -> MustQueryFloat64(r, key)
    [] fn = "MustQueryTime" -> MustQueryTime(r, key, layout)
    [] fn = "MustQueryTimeWithDefault" -> MustQueryTimeWithDefault(r, key, layout, defaultValue)
    [] fn = "MustQueryDuration" -> MustQueryDuration(r, key)
    [] fn = "MustQueryDurationWithDefault" -> MustQueryDurationWithDefault(r, key, defaultValue)
    [] fn = "QueryString" -> QueryString(r, key, defaultValue)
    [] fn = "QueryStringArray" -> QueryStringArray(r, key, defaultValue)
    [] fn = "QueryBool" -> QueryBool(r, key, defaultValue)
    [] fn = "QueryInt" -> QueryInt(r, key, defaultValue)
    [] fn = "QueryInt32" -> QueryInt32(r, key, defaultValue)
    [] fn = "QueryInt64" -> QueryInt64(r, key, defaultValue)
    [] fn = "QueryFloat32" -> QueryFloat32(r, key, defaultValue)
    [] fn = "QueryFloat64" -> QueryFloat64(r, key, defaultValue)
    [] fn = "QueryTime" -> QueryTime(r, key, layout)
    [] fn = "QueryTimeWithDefault" -> QueryTimeWithDefault(r, key, layout, defaultValue)
    [] fn = "QueryDuration" -> QueryDuration(r, key)
    [] fn = "QueryDurationWithDefault" -> QueryDurationWithDefault(r, key, defaultValue)
    [] fn = "MustParamsString" -> MustParamsString(r, key)
    [] fn = "MustParamsBool" -> MustParamsBool(r, key)
    [] fn = "MustParamsInt" -> MustParamsInt(r, key)
    [] fn = "MustParamsInt32" -> MustParamsInt32(r, key)
    [] fn = "MustParamsInt64" -> MustParamsInt64(r, key)
    [] fn = "MustParamsFloat32" -> MustParamsFloat32(r, key)
    [] fn = "MustParamsFloat64" -> MustParamsFloat64(r, key)
    [] fn = "MustParamsTime" -> MustParamsTime(r, key, layout)
    [] fn = "MustParamsTimeWithDefault" -> MustParamsTimeWithDefault(r, key, layout, defaultValue)
    [] fn = "MustParamsDuration" -> MustParamsDuration(r, key)
    [] fn = "MustParamsDurationWithDefault" -> MustParamsDurationWithDefault(r, key, defaultValue)
    [] fn = "ParamsString" -> ParamsString(r, key, defaultValue)
    [] fn = "ParamsBool" -> ParamsBool(r, key, defaultValue)
    [] fn = "ParamsInt" -> ParamsInt(r, key, defaultValue)
    [] fn = "ParamsInt32" -> ParamsInt32(r, key, defaultValue)
    [] fn = "ParamsInt64" -> ParamsInt64(r, key, defaultValue)
    [] fn = "ParamsFloat32" -> ParamsFloat32(r, key, defaultValue)
    [] fn = "ParamsFloat64" -> ParamsFloat64(r, key, defaultValue)
    [] fn = "ParamsTime" -> ParamsTime(r, key, layout, defaultValue)
    [] fn = "ParamsDuration" -> ParamsDuration(r, key, defaultValue)

\* ------------------------------------------------------------------------
\* Inputs
\* ------------------------------------------------------------------------

\* The parameter names: a plain one and one with a double quote in it.
Keys == {"key", "a\"b"}

\* The raw texts a parameter carries: empty, and texts that each extractor
\* accepts or rejects (a name, a boolean, integers inside and outside the
\* 32 and 64 bit ranges, floats inside and outside the float32 range, a
\* duration, a date, comma separated lists, also with empty parts and with
\* a space, the integers at and next to the ends of the 32 and 64 bit
\* ranges, one that is 1 in its low 32 bits, a hexadecimal one, one with a
\* plus sign, one with leading zeros, and zero with and without a sign).
RawValues ==
  {"", "Rob", "true", "1", "42", "-7", "2147483648", "9223372036854775808",
   "1.5", "1e39", "1m12s", "2018-12-31", "a,b", "a,b,c", "a,,b", ", x,",
   "2147483647", "-2147483648", "-2147483649", "4294967297",
   "9223372036854775807", "-9223372036854775809", "0x1F", "+5", "007", "0", "-0"}

Layouts == {"2006-01-02", "2006-01-02 15:04:05"}

\* A request that carries the value v under the name k in one place.
Places == {"post", "query", "vars"}

Request(place, k, v) ==
  [PostForm |-> IF place = "post" THEN [x \in {k} |-> <<v>>] ELSE EmptyMap,
   Query    |-> IF place = "query" THEN [x \in {k} |-> <<v>>] ELSE EmptyMap,
   Vars     |-> IF place = "vars" THEN [x \in {k} |-> v] ELSE [x \in {} |-> ""],
   Header   |-> EmptyMap,
   Form     |-> <<>>]

\* A request without any parameter.
EmptyRequest ==
  [PostForm |-> EmptyMap, Query |-> EmptyMap, Vars |-> [x \in {} |-> ""], Header |-> EmptyMap, Form |-> <<>>]

\* A request with the name in the body and in the query string, and one with
\* two values of the name in the query string.
BothRequest ==
  [PostForm |-> [x \in {"key"} |-> <<"Rob">>], Query |-> [x \in {"key"} |-> <<"42">>],
   Vars |-> [x \in {} |-> ""], Header |-> EmptyMap, Form |-> <<>>]

MultiRequest ==
  [PostForm |-> EmptyMap, Query |-> [x \in {"key"} |-> <<"7", "8">>],
   Vars |-> [x \in {} |-> ""], Header |-> EmptyMap, Form |-> <<>>]

Requests ==
  {EmptyRequest, BothRequest, MultiRequest}
    \cup {Request(p, k, v) : p \in Places, k \in Keys, v \in RawValues}

\* The default values a caller passes, by result type.
Defaults(type) ==
  CASE type = "string" -> {"", "Mary"}
    [] type = "bool" -> {FALSE, TRUE}
    [] type \in {"int", "int32", "int64"} -> {"0", "42"}
    [] type \in {"float32", "float64"} ->
         {ZeroFloat, [cls |-> "num", neg |-> FALSE, mant |-> "15", exp |-> -1]}
    [] type = "time" -> {ZeroTime, [Y |-> 2018, M |-> 12, D |-> 31, h |-> 18, m |-> 47, s |-> 7]}
    [] type = "duration" -> {ZeroDuration, [neg |-> FALSE, sec |-> 42, ns |-> 198000000]}
    [] type = "strings" -> {<<>>, <<"x", "y">>}

LayoutsOf(fn) == IF fn \in LayoutAccessors THEN Layouts ELSE {""}

DefaultsOf(fn) == IF fn \in DefaultAccessors THEN Defaults(ResultType(fn)) ELSE {""}

\* The texts of messages and details: empty, plain, with characters the
\* encoders escape, and with a byte that is not valid UTF-8.
Messages == {"", "Validation failed", "a\"b<c>&d\\", "bad" \o InvalidByte}

DetailLists == {<<>>, <<"A has failed", "B is invalid">>, <<"<" \o InvalidByte \o ">">>}

\* The causes an error wraps: none, io.EOF, a parameter error, and a value
\* of a struct kind.
Causes ==
  {Nil, ErrorString("EOF"), MissingParameterError("key"),
   HTTPError("NotFoundError", "gone", <<>>, Nil)}

GenericCodes == {StatusTeapot, StatusNotFound, 299}

\* The values a handler panics with or hands to a responder.
KindErrors ==
  {HTTPError(k, m, d, c) : k \in Kinds, m \in Messages, d \in DetailLists, c \in Causes}

GenericErrors ==
  {GenericError(n, m, d, c) : n \in GenericCodes, m \in Messages, d \in DetailLists, c \in Causes}

ParameterErrors ==
  {MissingParameterError(k) : k \in Keys} \cup {InvalidParameterError(k) : k \in Keys}

\* An error without capabilities that wraps a NotFoundError with details.
Wrapped ==
  WrapError("lookup: gone",
            HTTPError("NotFoundError", "gone", <<"A has failed", "B is invalid">>, Nil))

PlainValues ==
  {GoString("something happened"), GoString("x" \o InvalidByte), GoString(""),
   ErrorString("kaboom"), ErrorString(""), Wrapped}


\* The data a handler writes as JSON: the person of the examples, an empty
\* object, an object in an object, a list, a string with a character that
\* is escaped, and a number.
Person == JObj([k \in {"name"} |-> JStr("Oliver")])

\* Data the encoder fails on: a channel, and an object with a channel in it.
Unserializable ==
  {JChan, JObj([k \in {"name", "done"} |-> IF k = "name" THEN JStr("Oliver") ELSE JChan])}

DataValues ==
  {Person, JObj(EmptyMap), JObj([k \in {"b", "a"} |-> IF k = "a" THEN Person ELSE JNum(1)]),
   JArr(<<JStr("x"), JNum(2)>>), JStr("a<b"), JNum(42)} \cup Unserializable

\* http.StatusCreated, the status of the example.
StatusCreated == 201

\* The status codes a handler passes to WriteJSONCode.
DataCodes == {StatusOK, StatusCreated, StatusNotFound}

\* The values of the Authorization header: the schemes Bearer in several
\* cases, Basic and Token, a prefix without a token, tokens with capitals
\* and with spaces, and two values of which the first counts.
AuthValues ==
  {<<"Bearer secret">>, <<"bearer secret">>, <<"BEARER SeCrEt">>, <<"bEaReR x">>,
   <<"Bearer ">>, <<"Bearer">>, <<"bearer">>, <<"">>, <<"Basic xxx">>, <<"Basic Bearer x">>,
   <<"Bearersecret">>, <<" Bearer secret">>, <<"Bearer  two">>, <<"Bearer a b">>,
   <<"Token abc">>, <<"Bearer\tsecret">>, <<"Basic x", "Bearer y">>, <<"Bearer y", "Basic x">>}

\* A request with the Authorization header given, and the requests of the
\* handlers that read the token.
AuthRequest(values) == [EmptyRequest EXCEPT !.Header = [x \in {"Authorization"} |-> values]]

AuthRequests == {EmptyRequest} \cup {AuthRequest(v) : v \in AuthValues}

\* The byte slices a test compares: none, objects with and without white
\* space between their tokens, with the members in another order, with and
\* without a space in a string, with a space before a colon, and bytes that
\* are no JSON.
JSONTexts ==
  {"", "{\"a\":1,\"b\":2}", "{\"a\":1,\"b\":2}     ", "{\n\t\"a\":1,\n\t\"b\":2\n}\n",
   "{\"b\":2,\"a\":1}", "{\"a\":\"x y\"}", "{\"a\":\"xy\"}", " {\"a\" : \"xy\"}",
   "x", "12", "1 2", "  ", "{\"a\":1"}

\* ------------------------------------------------------------------------
\* The buffer pool of ReadJSON and the calls in flight that share it
\* ------------------------------------------------------------------------

VARIABLES
  pool,       \* byteBufPool: the buffers that lie in the pool
  bufs,       \* the contents of every bytes.Buffer allocated so far
  reqs        \* the handler invocations that read a JSON body, by goroutine

\* No buffer is allocated and no invocation reads a body.
NoReaders ==
  /\ pool = {}
  /\ bufs = <<>>
  /\ reqs = <<>>
\* ------------------------------------------------------------------------
\* A handler invocation: the hook is deferred first, the body extracts a
\* parameter and writes its response, or panics, or calls a responder; then
\* the deferred call runs.
\* ------------------------------------------------------------------------

VARIABLES
  r,          \* the request
  w,          \* the response sink
  pc,         \* where the handler is
  hook,       \* the deferred hook: "Recover", "RecoverJSON" or "none"
  call,       \* the call the body has made
  out,        \* the outcome of the accessor called
  payload,    \* the payload of the panic in flight, nil when there is none
  propagated, \* whether a panic left the handler
  prev        \* the outcome of the first call when the body has called twice

vars == <<r, w, pc, hook, call, out, payload, propagated, prev, pool, bufs, reqs>>

NoCall == [fn |-> ""]

NoResult == [panicked |-> FALSE, none |-> TRUE]

StartHandler(req) ==
  /\ r = req
  /\ w = NewRecorder
  /\ pc = "idle"
  /\ hook = "none"
  /\ call = NoCall
  /\ out = NoResult
  /\ payload = Nil
  /\ propagated = FALSE
  /\ prev = NoResult

Start(req) == StartHandler(req) /\ NoReaders

\* A handler of the parameter tests: any request.
Init == \E req \in Requests : Start(req)

\* A handler of the error tests: the request plays no part.
InitErr == Start(EmptyRequest)

\* defer Recover(w, r), defer RecoverJSON(w, r), or no hook at all.
Begin(h) ==
  /\ pc = "idle"
  /\ pc' = "body"
  /\ hook' = h
  /\ UNCHANGED <<r, w, call, out, payload, propagated, pool, bufs, reqs, prev>>

\* The request after fn(r, key, ...): an accessor of the form has had the
\* form parsed, the others leave the request as it is.
RequestAfter_Consumed(fn, req) ==
  IF fn \in FormAccessors THEN [req EXCEPT !.PostForm = EmptyMap] ELSE req

RequestAfter(fn, req) == IF fn \in FormAccessors THEN ParseForm(req) ELSE req

\* v := fn(r, key, ...): the body continues with the value, or the accessor
\* panics.
CallAccessor(fn, key, layout, defaultValue) ==
  /\ pc = "body"
  /\ call.fn = ""
  /\ call' = [fn |-> fn, key |-> key, layout |-> layout, defaultValue |-> defaultValue]
  /\ out' = Invoke(fn, r, key, layout, defaultValue)
  /\ r' = RequestAfter(fn, r)
  /\ payload' = IF out'.panicked THEN out'.err ELSE Nil
  /\ pc' = IF out'.panicked THEN "panicking" ELSE "body"
  /\ UNCHANGED <<w, hook, propagated, prev, pool, bufs, reqs>>

\* The body makes the call of a default-mode accessor it has made once
\* more, with the same request, key and default.
CallAgain ==
  /\ pc = "body"
  /\ call.fn \in Accessors \ MustAccessors
  /\ prev = NoResult
  /\ prev' = out
  /\ out' = Invoke(call.fn, r, call.key, call.layout, call.defaultValue)
  /\ r' = RequestAfter(call.fn, r)
  /\ payload' = IF out'.panicked THEN out'.err ELSE Nil
  /\ pc' = IF out'.panicked THEN "panicking" ELSE "body"
  /\ UNCHANGED <<w, hook, call, propagated, pool, bufs, reqs>>

\* The text fmt.Fprint writes for a string, a boolean or an integer.
FormatValue(type, v) ==
  CASE type = "bool" -> IF v THEN "true" ELSE "false"
    [] OTHER -> v

Printable == {"string", "bool", "int", "int32", "int64"}

\* fmt.Fprint(w, v) as the last statement of the body.
Respond ==
  /\ pc = "body"
  /\ call.fn \in Accessors
  /\ ResultType(call.fn) \in Printable
  /\ w' = Fprint(w, FormatValue(ResultType(call.fn), out.ret))
  /\ pc' = "returning"
  /\ UNCHANGED <<r, hook, call, out, payload, propagated, pool, bufs, reqs, prev>>

\* The body ends without writing.
EndBody ==
  /\ pc = "body"
  /\ pc' = "returning"
  /\ UNCHANGED <<r, w, hook, call, out, payload, propagated, pool, bufs, reqs, prev>>

\* panic(p) in the body.
PanicWith(p) ==
  /\ pc = "body"
  /\ call.fn = ""
  /\ call' = [fn |-> "panic", arg |-> p]
  /\ payload' = p
  /\ pc' = "panicking"
  /\ UNCHANGED <<r, w, hook, out, propagated, pool, bufs, reqs, prev>>

\* WriteError(w, e) as the last statement of the body.
CallWriteError(e) ==
  /\ pc = "body"
  /\ call.fn = ""
  /\ call' = [fn |-> "WriteError", arg |-> e]
  /\ w' = WriteError(w, e)
  /\ pc' = "returning"
  /\ UNCHANGED <<r, hook, out, payload, propagated, pool, bufs, reqs, prev>>

\* WriteJSONError(w, e) as the last statement of the body.
CallWriteJSONError(e) ==
  /\ pc = "body"
  /\ call.fn = ""
  /\ call' = [fn |-> "WriteJSONError", arg |-> e]
  /\ w' = WriteJSONError(w, e)
  /\ pc' = "returning"
  /\ UNCHANGED <<r, hook, out, payload, propagated, pool, bufs, reqs, prev>>

\* equal := EqualJSON(a, b)
CallEqualJSON(a, b) ==
  /\ pc = "body"
  /\ call.fn = ""
  /\ call' = [fn |-> "EqualJSON", a |-> a, b |-> b]
  /\ out' = Return(EqualJSON(a, b))
  /\ UNCHANGED <<r, w, pc, hook, payload, propagated, pool, bufs, reqs, prev>>

\* token, ok := BearerToken(r)
CallBearerToken ==
  /\ pc = "body"
  /\ call.fn = ""
  /\ call' = [fn |-> "BearerToken"]
  /\ out' = Return(BearerToken(r))
  /\ UNCHANGED <<r, w, pc, hook, payload, propagated, pool, bufs, reqs, prev>>

\* WriteJSONCode(w, code, data) as the last statement of the body.
CallWriteJSONCode(code, data) ==
  /\ pc = "body"
  /\ call.fn = ""
  /\ call' = [fn |-> "WriteJSONCode", arg |-> data, code |-> code]
  /\ w' = WriteJSONCode(w, code, data)
  /\ pc' = "returning"
  /\ UNCHANGED <<r, hook, out, payload, propagated, pool, bufs, reqs, prev>>

\* WriteJSON(w, data) as the last statement of the body.
CallWriteJSON(data) ==
  /\ pc = "body"
  /\ call.fn = ""
  /\ call' = [fn |-> "WriteJSON", arg |-> data, code |-> StatusOK]
  /\ w' = WriteJSON(w, data)
  /\ pc' = "returning"
  /\ UNCHANGED <<r, hook, out, payload, propagated, pool, bufs, reqs, prev>>

\* recover() in a deferred call: the payload while panicking, else nil.
Recovered == IF pc = "panicking" THEN payload ELSE Nil

\* The deferred Recover(w, r) runs when the body has returned or panicked.
DeferredRecover ==
  /\ pc \in {"returning", "panicking"}
  /\ hook = "Recover"
  /\ \E res \in {Recover(w, r, Recovered)} :
       /\ w' = res.w
       /\ propagated' = (pc = "panicking" /\ ~res.recovered)
  /\ pc' = IF propagated' THEN "crashed" ELSE "done"
  /\ payload' = IF propagated' THEN payload ELSE Nil
  /\ UNCHANGED <<r, hook, call, out, pool, bufs, reqs, prev>>

\* The deferred RecoverJSON(w, r) runs when the body has returned or panicked.
DeferredRecoverJSON ==
  /\ pc \in {"returning", "panicking"}
  /\ hook = "RecoverJSON"
  /\ \E res \in {RecoverJSON(w, r, Recovered)} :
       /\ w' = res.w
       /\ propagated' = (pc = "panicking" /\ ~res.recovered)
  /\ pc' = IF propagated' THEN "crashed" ELSE "done"
  /\ payload' = IF propagated' THEN payload ELSE Nil
  /\ UNCHANGED <<r, hook, call, out, pool, bufs, reqs, prev>>

\* Without a hook the handler returns, or the panic leaves it.
Unwind ==
  /\ pc \in {"returning", "panicking"}
  /\ hook = "none"
  /\ propagated' = (pc = "panicking")
  /\ pc' = IF pc = "panicking" THEN "crashed" ELSE "done"
  /\ UNCHANGED <<r, w, hook, call, out, payload, pool, bufs, reqs, prev>>

Hooks == {"Recover", "RecoverJSON", "none"}

Next ==
  \/ \E h \in Hooks : Begin(h)
  \/ \E fn \in Accessors, key \in Keys :
       \E layout \in LayoutsOf(fn), defaultValue \in DefaultsOf(fn) :
         CallAccessor(fn, key, layout, defaultValue)
  \/ CallAgain
  \/ Respond
  \/ EndBody
  \/ DeferredRecover
  \/ DeferredRecoverJSON
  \/ Unwind

Spec == Init /\ [][Next]_vars

NextErr ==
  \/ \E h \in Hooks : Begin(h)
  \/ \E p \in KindErrors : PanicWith(p)
  \/ \E p \in GenericErrors : PanicWith(p)
  \/ \E p \in ParameterErrors : PanicWith(p)
  \/ \E p \in PlainValues : PanicWith(p)
  \/ \E e \in KindErrors : CallWriteError(e)
  \/ \E e \in GenericErrors : CallWriteError(e)
  \/ \E e \in ParameterErrors : CallWriteError(e)
  \/ \E e \in PlainValues : CallWriteError(e)
  \/ \E e \in KindErrors : CallWriteJSONError(e)
  \/ \E e \in GenericErrors : CallWriteJSONError(e)
  \/ \E e \in ParameterErrors : CallWriteJSONError(e)
  \/ \E e \in PlainValues : CallWriteJSONError(e)
  \/ \E code \in DataCodes, data \in DataValues : CallWriteJSONCode(code, data)
  \/ \E data \in DataValues : CallWriteJSON(data)
  \/ EndBody
  \/ DeferredRecover
  \/ DeferredRecoverJSON
  \/ Unwind

SpecErr == InitErr /\ [][NextErr]_vars


\* A handler that reads the bearer token of its request.
InitAuth == \E req \in AuthRequests : Start(req)

NextAuth ==
  \/ \E h \in Hooks : Begin(h)
  \/ CallBearerToken
  \/ EndBody
  \/ DeferredRecover
  \/ DeferredRecoverJSON
  \/ Unwind

SpecAuth == InitAuth /\ [][NextAuth]_vars

\* A test that compares two byte slices.
InitEqual == Start(EmptyRequest)

NextEqual ==
  \/ \E h \in Hooks : Begin(h)
  \/ \E a \in JSONTexts, b \in JSONTexts : CallEqualJSON(a, b)
  \/ EndBody
  \/ DeferredRecover
  \/ DeferredRecoverJSON
  \/ Unwind

SpecEqual == InitEqual /\ [][NextEqual]_vars

\* ------------------------------------------------------------------------
\* Goroutines that read a JSON body: each calls ReadJSON on its own request,
\* directly or through MustReadJSON in a handler that defers RecoverJSON.
\* The calls share byteBufPool.
\* ------------------------------------------------------------------------

Procs == {1, 2}

\* The limit of the LimitReader, which is 8<<20 in the code, and the most
\* bytes the body hands over in one Read that is not the rest of the body.
MaxBytes == 20

Chunk == 8

RECURSIVE Repeat(_, _)
Repeat(c, n) == IF n = 0 THEN "" ELSE c \o Repeat(c, n - 1)

\* Bodies within the limit.
ShortBodies ==
  {"", "{\"message\":\"hello\"}", "{\"message\"}", "{\"abc\"}", "{\"Message\":\"hel",
   "{\"message\":7}", "{\"message\":\"hi\"} x", "\"hello\""}

\* Bodies longer than the limit: an object that ends within the limit, a
\* string that does not, white space beyond the limit, and a syntax error
\* in the first bytes.
LongBodies ==
  {"{\"message\":\"hi\"}" \o Repeat(" ", MaxBytes),
   "{\"message\":\"" \o Repeat("x", MaxBytes) \o "\"}",
   Repeat(" ", MaxBytes + 1) \o "{}",
   "{\"abc\"}" \o Repeat(" ", MaxBytes)}

Bodies == ShortBodies \cup LongBodies

Callers == {"ReadJSON", "MustReadJSON"}

\* A goroutine that has not yet called.
Idle ==
  [fn |-> "", body |-> "", pc |-> "idle", pos |-> 0, eof |-> FALSE, buf |-> 0,
   err |-> Nil, dst |-> coding, w |-> NewRecorder, payload |-> Nil, panic |-> Nil]

InitJSON ==
  /\ StartHandler(EmptyRequest)
  /\ pool = {}
  /\ bufs = <<>>
  /\ reqs = [p \in Procs |-> Idle]

\* The bytes the decoder of p has read, which are the bytes the TeeReader
\* has written to the buffer of p.
DataRead(q) == Take(q.body, q.pos)

\* The bytes the LimitReader can still hand over.
Available(q) == Len(LimitReader(q.body, MaxBytes)) - q.pos

\* The sizes of one Read: a chunk, or all that is left.
ReadSizes(q) == {IF Available(q) < Chunk THEN Available(q) ELSE Chunk, Available(q)}

\* The goroutine calls fn with a request of the given body; a handler
\* defers RecoverJSON(w, r) first.
Call(p, fn, body) ==
  /\ reqs[p].pc = "idle"
  /\ reqs' = [reqs EXCEPT ![p] = [Idle EXCEPT !.fn = fn, !.body = body, !.pc = "get"]]
  /\ UNCHANGED <<r, w, pc, hook, call, out, payload, propagated, pool, bufs, prev>>

\* buf := byteBufPool.Get(): a buffer of the pool, which leaves the pool.
GetPooled_Kept(p, b) ==
  /\ reqs[p].pc = "get"
  /\ b \in pool
  /\ pool' = pool
  /\ reqs' = [reqs EXCEPT ![p].buf = b, ![p].pc = "decode"]
  /\ UNCHANGED <<r, w, pc, hook, call, out, payload, propagated, bufs, prev>>

GetPooled(p, b) ==
  /\ reqs[p].pc = "get"
  /\ b \in pool
  /\ pool' = pool \ {b}
  /\ reqs' = [reqs EXCEPT ![p].buf = b, ![p].pc = "decode"]
  /\ UNCHANGED <<r, w, pc, hook, call, out, payload, propagated, bufs, prev>>

\* buf := byteBufPool.Get(): a buffer made by New; the pool may do so
\* whatever it holds.
GetNew(p) ==
  /\ reqs[p].pc = "get"
  /\ bufs' = Append(bufs, "")
  /\ reqs' = [reqs EXCEPT ![p].buf = Len(bufs) + 1, ![p].pc = "decode"]
  /\ UNCHANGED <<r, w, pc, hook, call, out, payload, propagated, pool, prev>>

\* One Read of the decoder through the TeeReader and the LimitReader: n
\* bytes of the body, which are written to the buffer too.
Read(p, n) ==
  /\ reqs[p].pc = "decode"
  /\ WantsRead(DataRead(reqs[p]), reqs[p].eof)
  /\ n \in ReadSizes(reqs[p])
  /\ n > 0
  /\ bufs' = [bufs EXCEPT ![reqs[p].buf] = @ \o SubSeq(reqs[p].body, reqs[p].pos + 1, reqs[p].pos + n)]
  /\ reqs' = [reqs EXCEPT ![p].pos = @ + n]
  /\ UNCHANGED <<r, w, pc, hook, call, out, payload, propagated, pool, prev>>

\* The Read at the end of the body or at the limit: io.EOF.
ReadEOF(p) ==
  /\ reqs[p].pc = "decode"
  /\ WantsRead(DataRead(reqs[p]), reqs[p].eof)
  /\ Available(reqs[p]) = 0
  /\ reqs' = [reqs EXCEPT ![p].eof = TRUE]
  /\ UNCHANGED <<r, w, pc, hook, call, out, payload, propagated, pool, bufs, prev>>

\* The value of a panic in the Read of a body.
ReadPanicValue == ErrorString("runtime error: invalid memory address or nil pointer dereference")

\* The Read of the body panics where it would report the end of the body:
\* Decode does not return, and the deferred function of ReadJSON runs next.
\* At the limit the LimitReader does not call the body any more.
ReadPanic(p) ==
  /\ reqs[p].pc = "decode"
  /\ WantsRead(DataRead(reqs[p]), reqs[p].eof)
  /\ reqs[p].pos = Len(reqs[p].body)
  /\ reqs[p].pos < MaxBytes
  /\ reqs' = [reqs EXCEPT ![p].panic = ReadPanicValue, ![p].pc = "deferred"]
  /\ UNCHANGED <<r, w, pc, hook, call, out, payload, propagated, pool, bufs, prev>>

\* What ReadJSON returns for the outcome d of Decode when the buffer holds
\* the bytes b.
ReadJSONError_NoInput(d, b) ==
  IF d.err.kind # "nil" THEN Errorf("invalid JSON data: %v, on input: %s", d.err, "") ELSE Nil

ReadJSONError(d, b) ==
  IF d.err.kind # "nil" THEN Errorf("invalid JSON data: %v, on input: %s", d.err, b) ELSE Nil

\* Decode returns and ReadJSON computes what it returns.
DecodeReturn(p) ==
  /\ reqs[p].pc = "decode"
  /\ ~WantsRead(DataRead(reqs[p]), reqs[p].eof)
  /\ reqs' = [reqs EXCEPT
       ![p].dst = DecodeRead(DataRead(reqs[p]), reqs[p].dst).dst,
       ![p].err = ReadJSONError(DecodeRead(DataRead(reqs[p]), reqs[p].dst), bufs[reqs[p].buf]),
       ![p].pc = "deferred"]
  /\ UNCHANGED <<r, w, pc, hook, call, out, payload, propagated, pool, bufs, prev>>

\* buf.Reset()
Reset_Kept(b) == b

Reset(b) == ""

\* Where the goroutine goes on when ReadJSON has ended: a panic passes
\* through MustReadJSON to the deferred hook of the handler, or ends a
\* goroutine that has none.
AfterReadJSON(q) ==
  IF q.panic # Nil THEN (IF q.fn = "MustReadJSON" THEN "panicking" ELSE "panicked")
  ELSE IF q.fn = "MustReadJSON" THEN "must" ELSE "done"

\* The deferred function of ReadJSON: buf.Reset(); byteBufPool.Put(buf).
\* Then ReadJSON returns, or the panic goes on.
ReadJSONDeferred(p) ==
  /\ reqs[p].pc = "deferred"
  /\ bufs' = [bufs EXCEPT ![reqs[p].buf] = Reset(@)]
  /\ pool' = pool \cup {reqs[p].buf}
  /\ reqs' = [reqs EXCEPT ![p].buf = 0,
                          ![p].payload = reqs[p].panic,
                          ![p].pc = AfterReadJSON(reqs[p])]
  /\ UNCHANGED <<r, w, pc, hook, call, out, payload, propagated, prev>>

\* The payload of the panic of MustReadJSON for the error of ReadJSON.
MustReadJSON_NoCause(err) ==
  IF err.kind # "nil" THEN HTTPError("BadRequestError", "Invalid JSON data", <<>>, Nil) ELSE Nil

MustReadJSON(err) ==
  IF err.kind # "nil" THEN HTTPError("BadRequestError", "Invalid JSON data", <<>>, err) ELSE Nil

\* MustReadJSON panics or returns; the handler goes on after a return.
MustReadJSONReturn(p) ==
  /\ reqs[p].pc = "must"
  /\ reqs' = [reqs EXCEPT ![p].payload = MustReadJSON(reqs[p].err),
                          ![p].pc = IF reqs[p].err.kind # "nil" THEN "panicking" ELSE "body"]
  /\ UNCHANGED <<r, w, pc, hook, call, out, payload, propagated, pool, bufs, prev>>

\* fmt.Fprint(w, "ok\n")
HandlerRespond(p) ==
  /\ reqs[p].pc = "body"
  /\ reqs' = [reqs EXCEPT ![p].w = Fprint(@, "ok\n"), ![p].pc = "returning"]
  /\ UNCHANGED <<r, w, pc, hook, call, out, payload, propagated, pool, bufs, prev>>

\* The deferred RecoverJSON(w, r) of the handler.
HandlerRecoverJSON(p) ==
  /\ reqs[p].pc \in {"panicking", "returning"}
  /\ reqs' = [reqs EXCEPT ![p].w = RecoverJSON(@, EmptyRequest, reqs[p].payload).w,
                          ![p].pc = "done"]
  /\ UNCHANGED <<r, w, pc, hook, call, out, payload, propagated, pool, bufs, prev>>

NextJSON ==
  \/ \E p \in Procs, fn \in Callers, body \in Bodies : Call(p, fn, body)
  \/ \E p \in Procs, b \in 1..Len(bufs) : GetPooled(p, b)
  \/ \E p \in Procs : GetNew(p)
  \/ \E p \in Procs, n \in 1..(MaxBytes + 1) : Read(p, n)
  \/ \E p \in Procs : ReadEOF(p)
  \/ \E p \in Procs : ReadPanic(p)
  \/ \E p \in Procs : DecodeReturn(p)
  \/ \E p \in Procs : ReadJSONDeferred(p)
  \/ \E p \in Procs : MustReadJSONReturn(p)
  \/ \E p \in Procs : HandlerRespond(p)
  \/ \E p \in Procs : HandlerRecoverJSON(p)

SpecJSON == InitJSON /\ [][NextJSON]_vars
\* ------------------------------------------------------------------------
\* Properties of the parameter accessors
\* ------------------------------------------------------------------------

\* The raw text of key in the source an accessor reads: the first value of
\* the form (body first, then query string), the first value of the query
\* string, or the routing variable; "" when the key is absent.
RawOf(fn, req, key) ==
  LET vs == CASE fn \in FormAccessors -> ValuesOf(req.PostForm, key) \o ValuesOf(req.Query, key)
              [] fn \in QueryAccessors -> ValuesOf(req.Query, key)
              [] fn \in ParamsAccessors ->
                   IF key \in DOMAIN req.Vars THEN <<req.Vars[key]>> ELSE <<>>
  IN  IF Len(vs) = 0 THEN "" ELSE vs[1]

\* The raw text read as a value of the target type.
Extract(type, layout, v) ==
  CASE type = "string"   -> [ok |-> TRUE, v |-> v]
    [] type = "bool"     -> ParseBool(v)
    [] type = "int"      -> ParseInt(v, IntSize)
    [] type = "int32"    -> ParseInt(v, 32)
    [] type = "int64"    -> ParseInt(v, 64)
    [] type = "float32"  -> ParseFloat(v, 32)
    [] type = "float64"  -> ParseFloat(v, 64)
    [] type = "time"     -> TimeParse(layout, v)
    [] type = "duration" -> ParseDuration(v)
    [] type = "strings"  -> [ok |-> TRUE, v |-> Split(v, ",")]

\* The raw text and its reading for the call the body has made.
CallRaw == RawOf(call.fn, r, call.key)

CallExtract == Extract(ResultType(call.fn), call.layout, CallRaw)

\* e is a BadRequestError that carries the text of the parameter error p.
BadRequestWithTextOf(e, p) ==
  /\ e.kind = "BadRequestError"
  /\ Error(e) = Error(p)
  /\ HTTPCode(e) = HTTPCode(p)

MustNoDefault == MustAccessors \ DefaultAccessors

MustWithDefault == MustAccessors \cap DefaultAccessors

FormQueryDefault ==
  ((FormAccessors \cup QueryAccessors) \ MustAccessors) \ {"QueryStringArray"}

ParamsDefault == ParamsAccessors \ MustAccessors

ParamsNumeric ==
  {"ParamsInt", "ParamsInt32", "ParamsInt64", "ParamsFloat32", "ParamsFloat64"}

Fallback ==
  CASE call.fn = "QueryTime" -> ZeroTime
    [] call.fn = "QueryDuration" -> ZeroDuration
    [] OTHER -> call.defaultValue

C4_ParamsDefaultOnInvalid ==
  (call.fn \in ParamsDefault /\ CallRaw # "") =>
    /\ ~out.panicked
    /\ out.ret = IF CallExtract.ok THEN CallExtract.v ELSE call.defaultValue

\* ParamsInt has returned the default 42 for a text that is not an integer.
C4_Witness ==
  /\ call.fn = "ParamsInt"
  /\ CallRaw = "Rob"
  /\ call.defaultValue = "42"
  /\ ~out.panicked
  /\ out.ret = "42"

DocCode(kind) ==
  CASE kind = "BadRequestError" -> 400
    [] kind = "UnauthorizedError" -> 401
    [] kind = "PaymentRequiredError" -> 402
    [] kind = "ForbiddenError" -> 403
    [] kind = "NotFoundError" -> 404
    [] kind = "MethodNotAllowedError" -> 405
    [] kind = "NotAcceptableError" -> 406
    [] kind = "ProxyAuthRequiredError" -> 407
    [] kind = "RequestTimeoutError" -> 408
    [] kind = "ConflictError" -> 409
    [] kind = "GoneError" -> 410
    [] kind = "LengthRequiredError" -> 411
    [] kind = "PreconditionFailedError" -> 412
    [] kind = "RequestEntityTooLargeError" -> 413
    [] kind = "RequestURITooLongError" -> 414
    [] kind = "UnsupportedMediaTypeError" -> 415
    [] kind = "RequestedRangeNotSatisfiableError" -> 416
    [] kind = "ExpectationFailedError" -> 417
    [] kind = "TeapotError" -> 418
    [] kind = "MisdirectedRequestError" -> 421
    [] kind = "UnprocessableEntityError" -> 422
    [] kind = "LockedError" -> 423
    [] kind = "FailedDependencyError" -> 424
    [] kind = "TooEarlyError" -> 425
    [] kind = "UpgradeRequiredError" -> 426
    [] kind = "PreconditionRequiredError" -> 428
    [] kind = "TooManyRequestsError" -> 429
    [] kind = "RequestHeaderFieldsTooLargeError" -> 431
    [] kind = "UnavailableForLegalReasonsError" -> 451
    [] kind = "InternalServerError" -> 500
    [] kind = "NotImplementedError" -> 501
    [] kind = "BadGatewayError" -> 502
    [] kind = "ServiceUnavailableError" -> 503
    [] kind = "GatewayTimeoutError" -> 504
    [] kind = "HTTPVersionNotSupportedError" -> 505
    [] kind = "VariantAlsoNegotiatesError" -> 506
    [] kind = "InsufficientStorageError" -> 507
    [] kind = "LoopDetectedError" -> 508
    [] kind = "NotExtendedError" -> 510
    [] kind = "NetworkAuthenticationRequiredError" -> 511

\* ------------------------------------------------------------------------
\* Properties of the responders, the hooks and the error kinds
\* ------------------------------------------------------------------------

\* The key in double quotes, as written.
InQuotes(key) == "\"" \o key \o "\""

C7_Hook ==
  [][ /\ pc \notin {"done", "crashed"}
      /\ hook \in {"Recover", "RecoverJSON"} =>
           /\ pc = "returning" => (w' = w /\ pc' = "done" /\ ~propagated')
           /\ pc = "panicking" =>
                /\ w' = IF hook = "Recover" THEN WriteError(w, payload)
                                            ELSE WriteJSONError(w, payload)
                /\ pc' = "done"
                /\ ~propagated'
                /\ UNCHANGED <<call, out>> ]_vars

\* The hook has answered a panic of the body.
C7_Witness ==
  /\ call.fn = "panic"
  /\ hook = "Recover"
  /\ pc = "done"
  /\ ~propagated
  /\ w.wroteHeader
  /\ Len(w.Calls) = 2

\* The value has no HTTPCode method: a plain string or a plain error, which
\* may wrap another error.
Plain(e) == e.kind \in {"string", "errorString", "wrapError"}

\* The status a responder resolves for e.
Resolved(e) == IF Plain(e) THEN 500 ELSE HTTPCode(e)

\* {"error": {"code": code, "message": msg}}
Envelope(code, msg) ==
  JObj([k \in {"error"} |->
          JObj([j \in {"code", "message"} |->
                  IF j = "code" THEN JNum(code) ELSE JStr(msg)])])

\* C8: WriteError and WriteJSONError answer with the status HTTPCode() of a
\* value that has the method and with 500 for any other value; for such a
\* value the message written is its text: the string itself, or the text of
\* the plain error.
C8_Status ==
  call.fn \in {"WriteError", "WriteJSONError"} =>
    /\ w.Code = Resolved(call.arg)
    /\ w.Calls[IF call.fn = "WriteError" THEN 1 ELSE 2]
         = [op |-> "WriteHeader", code |-> Resolved(call.arg)]
    /\ Plain(call.arg) =>
         w.Body = IF call.fn = "WriteError"
                  THEN "<h1>" \o call.arg.s \o "</h1>"
                  ELSE MarshalIndent(Envelope(500, call.arg.s)) \o "\n"

\* WriteJSONError(w, "something happened") has answered 500.
C8_Witness ==
  /\ call.fn = "WriteJSONError"
  /\ Plain(call.arg)
  /\ call.arg.s = "something happened"
  /\ call.arg.kind = "string"
  /\ w.Code = 500
  /\ Decode(w.Body).v.m["error"].m["message"] = JStr("something happened")

\* The text with every byte that is not valid UTF-8 replaced by U+FFFD.
RECURSIVE ToValidUTF8(_)
ToValidUTF8(s) ==
  IF Len(s) = 0 THEN ""
  ELSE (IF Ch(s, 1) = InvalidByte THEN ReplacementChar ELSE Ch(s, 1)) \o ToValidUTF8(Drop(s, 1))

DetailsOf(e) == IF e.kind \in Kinds \cup {"Error"} THEN e.Details ELSE <<>>

\* The body of the response read as {"error": {...}} with the code, the
\* message and the details given, the key "details" absent when there are
\* none.
DecodesTo(body, code, msg, details) ==
  LET d == Decode(body)
  IN  /\ d.ok
      /\ d.v.t = "obj"
      /\ DOMAIN d.v.m = {"error"}
      /\ d.v.m["error"].t = "obj"
      /\ LET e == d.v.m["error"].m
         IN  /\ DOMAIN e = IF Len(details) = 0 THEN {"code", "message"}
                                                ELSE {"code", "message", "details"}
             /\ e["code"] = JNum(code)
             /\ e["message"] = JStr(msg)
             /\ Len(details) > 0 => e["details"] = JArr(JStrings(details))

\* The sink holds the answer of one WriteJSONError(w, e): called by the body,
\* or by RecoverJSON with the payload of the panic.
WroteJSONError ==
  \/ call.fn = "WriteJSONError"
  \/ call.fn = "panic" /\ hook = "RecoverJSON" /\ pc = "done"

\* C9 (as amended): the body written by WriteJSONError(w, e) decodes to an
\* object with the one key "error", whose code is the status written, whose
\* message is the text of e and whose details are the details of e in order,
\* each with the bytes that are not valid UTF-8 replaced by U+FFFD; the key
\* "details" is absent when e has no details.
C9_RoundTrip ==
  WroteJSONError =>
    /\ w.Code = Resolved(call.arg)
    /\ DecodesTo(w.Body, w.Code, ToValidUTF8(Sprint(call.arg)),
                 [i \in 1..Len(DetailsOf(call.arg)) |-> ToValidUTF8(DetailsOf(call.arg)[i])])

\* C9 as stated: message and details are those of e.
C9_Original ==
  WroteJSONError =>
    /\ w.Code = Resolved(call.arg)
    /\ DecodesTo(w.Body, w.Code, Sprint(call.arg), DetailsOf(call.arg))

\* WriteJSONError has written an error with a message of characters that the
\* encoder escapes, and with details.
C9_Witness ==
  /\ call.fn = "WriteJSONError"
  /\ call.arg.kind = "UnprocessableEntityError"
  /\ call.arg.Message = "a\"b<c>&d\\"
  /\ Len(call.arg.Details) = 2
  /\ Decode(w.Body).ok

\* C10: for each of the 40 kinds and any Message, Details and Err, HTTPCode
\* is the status the kind is documented with, Error is Message, or the reason
\* phrase of that status when Message is empty, and ErrorDetails is Details;
\* a responder answers with that status.
C10_Kinds ==
  (call.fn \in {"panic", "WriteError", "WriteJSONError"} /\ call.arg.kind \in Kinds) =>
    LET e == call.arg
    IN  /\ HTTPCode(e) = DocCode(e.kind)
        /\ Error(e) = IF e.Message # "" THEN e.Message ELSE StatusText(DocCode(e.kind))
        /\ StatusText(DocCode(e.kind)) # ""
        /\ ErrorDetails(e) = e.Details
        /\ call.fn # "panic" => w.Code = DocCode(e.kind)

\* A TeapotError without a message, with details and a cause, has been
\* written.
C10_Witness ==
  /\ call.fn = "WriteError"
  /\ call.arg.kind = "TeapotError"
  /\ call.arg.Message = ""
  /\ Len(call.arg.Details) = 2
  /\ call.arg.Err # Nil
  /\ w.Body = "<h1>I'm a teapot</h1>"


\* ------------------------------------------------------------------------
\* The parameter error types
\* ------------------------------------------------------------------------

\* The parameter error the body has panicked with or handed to a responder.
ParameterCall ==
  /\ call.fn \in {"panic", "WriteError", "WriteJSONError"}
  /\ call.arg.kind \in {"MissingParameterError", "InvalidParameterError"}

\* The word that opens the text of a parameter error.
ParameterWord(e) == IF e.kind = "MissingParameterError" THEN "Missing" ELSE "Invalid"

\* What holds of a parameter error e whose text is expected to be text.
ParameterErrorIs(e, text) ==
  /\ Error(e) = text
  /\ HTTPCode(e) = StatusBadRequest
  /\ Unwrap(e).kind = "BadRequestError"
  /\ Unwrap(e).Message = text
  /\ ErrorsIs(e, HTTPError("BadRequestError", text, <<>>, Nil))

Returned(q) == q.pc \notin {"idle", "get", "decode"} /\ q.panic = Nil

\* The body is one well-formed JSON document, an object whose member
\* "message", if there is one, is a string.
MatchesCoding(body) ==
  /\ Decode(body).ok
  /\ SkipSpace(Decode(body).rest) = ""
  /\ Decode(body).v.t = "obj"
  /\ \A k \in FieldKeys(Decode(body).v.m) : Decode(body).v.m[k].t = "str"

\* The value the document gives to the field Message.
MessageOf(body) ==
  IF FieldKeys(Decode(body).v.m) = {} THEN ""
  ELSE Decode(body).v.m[CHOOSE k \in FieldKeys(Decode(body).v.m) : TRUE].s

\* The text the error of ReadJSON has when the decoder fails with err after
\* it has read the bytes data.
InvalidJSONData(err, data) ==
  "invalid JSON data: " \o Error(err) \o ", on input: " \o data

C12_Returns(q) ==
  /\ (MatchesCoding(q.body) /\ Len(q.body) <= MaxBytes
        => q.err = Nil /\ q.dst = [Message |-> MessageOf(q.body)])
  /\ (q.err = Nil <=> DecodeRead(DataRead(q), coding).err = Nil)
  /\ (q.err # Nil
        => q.err = ErrorString(InvalidJSONData(DecodeRead(DataRead(q), coding).err, DataRead(q))))
  /\ (q.fn = "ReadJSON" => q.payload = Nil /\ q.pc \in {"deferred", "done"})

\* C12: ReadJSON returns nil and fills dst with the decoded value when the
\* body (within the limit) is well-formed JSON that matches dst; when the
\* decoder fails it returns an error, without a panic, whose text is
\* "invalid JSON data: ", the error of the decoder, ", on input: " and the
\* bytes read from the body so far.
C12_ReadJSON == \A p \in Procs : Returned(reqs[p]) => C12_Returns(reqs[p])

\* One call has failed on {"message"} and returned, another has filled dst
\* from {"message":"hello"}.
C12_Witness ==
  /\ reqs[1].fn = "ReadJSON" /\ reqs[1].pc = "done"
  /\ reqs[1].body = "{\"message\"}" /\ reqs[1].err # Nil
  /\ reqs[2].fn = "ReadJSON" /\ reqs[2].pc = "done"
  /\ reqs[2].body = "{\"message\":\"hello\"}" /\ reqs[2].dst.Message = "hello"

\* The body is longer than the limit of the LimitReader.
BeyondLimit(body) == Len(body) > MaxBytes

\* The first bytes of the body up to the limit.
Truncated(body) == Take(body, MaxBytes)

C13_Truncates(q) ==
  /\ (q.err = Nil <=> DecodeRead(Truncated(q.body), coding).err = Nil)
  /\ (q.err # Nil
        => q.err = ErrorString(InvalidJSONData(DecodeRead(Truncated(q.body), coding).err,
                                               DataRead(q))))
  /\ (ReadValue(Truncated(q.body)) = ScanMore(FALSE)
        => /\ q.err \in {ErrorString(InvalidJSONData(e, Truncated(q.body))) :
                           e \in {EOF, ErrUnexpectedEOF}}
           /\ q.pos = MaxBytes)

\* C13: ReadJSON consumes at most the limit (8 MiB) of the body.  A body
\* longer than the limit is decoded as its first bytes up to the limit are:
\* the call returns nil when a value that matches dst ends within the limit,
\* an error with the bytes read so far when the bytes within the limit hold
\* an error, and an error with exactly the bytes up to the limit when the
\* value does not end within the limit.
C13_Limit ==
  \A p \in Procs :
    /\ reqs[p].pos <= MaxBytes
    /\ (Returned(reqs[p]) /\ BeyondLimit(reqs[p].body) => C13_Truncates(reqs[p]))

\* C13 as stated: every body longer than the limit gives an error whose
\* text holds the bytes up to the limit.
C13_Original ==
  \A p \in Procs :
    /\ reqs[p].pos <= MaxBytes
    /\ (Returned(reqs[p]) /\ BeyondLimit(reqs[p].body)
          => /\ reqs[p].err # Nil
             /\ reqs[p].err = ErrorString(InvalidJSONData(
                   DecodeRead(Truncated(reqs[p].body), coding).err, Truncated(reqs[p].body))))

\* A body longer than the limit whose object ends within the limit has been
\* read without an error.
C13_Witness ==
  \E p \in Procs :
    /\ reqs[p].pc = "done" /\ BeyondLimit(reqs[p].body)
    /\ reqs[p].err = Nil /\ reqs[p].dst.Message = "hi"
    /\ reqs[p].pos <= MaxBytes

\* The goroutine holds a buffer: between Get and Put.
Holds(q) == q.buf # 0

\* The text of the error ends with the bytes given.
OnInput(err, data) ==
  /\ Len(err.s) >= Len(", on input: " \o data)
  /\ Drop(err.s, Len(err.s) - Len(", on input: " \o data)) = ", on input: " \o data

\* C14: whatever the interleaving of the calls, no buffer is held by two
\* calls at once, a buffer held is not in the pool, the buffer of a call
\* holds the bytes read from the body of that call and no others, and the
\* text of the error of a failing call ends with exactly those bytes.
C14_Exclusive ==
  /\ \A p, o \in Procs :
       p # o /\ Holds(reqs[p]) /\ Holds(reqs[o]) => reqs[p].buf # reqs[o].buf
  /\ \A p \in Procs :
       Holds(reqs[p]) => reqs[p].buf \notin pool /\ bufs[reqs[p].buf] = DataRead(reqs[p])
  /\ \A p \in Procs :
       Returned(reqs[p]) /\ reqs[p].err # Nil
         => /\ reqs[p].err = ErrorString(InvalidJSONData(
                  DecodeRead(DataRead(reqs[p]), coding).err, DataRead(reqs[p])))
            /\ OnInput(reqs[p].err, Take(reqs[p].body, reqs[p].pos))

\* Both goroutines are reading at once, each into its own buffer, and both
\* have read bytes of different bodies.
C14_Witness ==
  /\ reqs[1].pc = "decode" /\ reqs[2].pc = "decode"
  /\ reqs[1].pos > 0 /\ reqs[2].pos > 0
  /\ reqs[1].body # reqs[2].body
  /\ reqs[1].buf # reqs[2].buf

\* A buffer that another call has used and put back is in use again, and
\* the call that has it fails.
C14_Reused ==
  \E p, o \in Procs :
    /\ p # o /\ reqs[o].pc = "done" /\ reqs[o].pos > 0
    /\ reqs[p].pc = "deferred" /\ reqs[p].err # Nil
    /\ Len(bufs) = 1

\* MustReadJSON has returned or panicked in the handler of this goroutine.
MustReadJSONEnded(q) ==
  q.fn = "MustReadJSON" /\ q.pc \in {"panicking", "body", "returning", "done"} /\ q.panic = Nil

C15_Ended(q) ==
  /\ (q.err = Nil
        => /\ q.payload = Nil
           /\ q.pc # "panicking"
           /\ q.dst = DecodeRead(DataRead(q), coding).dst)
  /\ (q.err # Nil
        => /\ q.payload.kind = "BadRequestError"
           /\ q.payload.Message = "Invalid JSON data"
           /\ Unwrap(q.payload) = q.err
           /\ q.pc \in {"panicking", "done"})

\* C15: MustReadJSON returns normally, with dst filled, when ReadJSON
\* returns nil; when ReadJSON returns an error, it panics with a
\* BadRequestError whose Message is "Invalid JSON data" and whose Unwrap is
\* that error.
C15_MustReadJSON == \A p \in Procs : MustReadJSONEnded(reqs[p]) => C15_Ended(reqs[p])

\* MustReadJSON has panicked on {"message"} in one handler and has returned
\* with dst filled in the other.
C15_Witness ==
  \E p, o \in Procs :
    /\ reqs[p].fn = "MustReadJSON" /\ reqs[p].pc = "panicking"
    /\ reqs[p].body = "{\"message\"}" /\ reqs[p].payload.kind = "BadRequestError"
    /\ reqs[o].fn = "MustReadJSON" /\ reqs[o].pc = "body"
    /\ reqs[o].dst.Message = "hello"

\* The handler of this goroutine has ended after MustReadJSON panicked.
HandlerFailed(q) == q.fn = "MustReadJSON" /\ q.pc = "done" /\ q.err # Nil

\* The response is a JSON error envelope with the code and the message.
AnswersJSON(rec, code, msg) ==
  /\ "Content-Type" \in DOMAIN rec.snapHeader
  /\ rec.snapHeader["Content-Type"] = "application/json"
  /\ rec.Code = code
  /\ DecodesTo(rec.Body, code, msg, <<>>)

\* C16: when MustReadJSON fails in a handler that defers RecoverJSON, the
\* response has the Content-Type application/json and a JSON error envelope
\* with the code 400 whose message starts with "invalid JSON data" and is
\* "invalid JSON data: ", the error of the decoder, ", on input: " and the
\* payload read.
C16_Original ==
  \A p \in Procs :
    HandlerFailed(reqs[p]) =>
      /\ HasPrefix(reqs[p].err.s, "invalid JSON data")
      /\ AnswersJSON(reqs[p].w, StatusBadRequest,
                     InvalidJSONData(DecodeRead(DataRead(reqs[p]), coding).err, DataRead(reqs[p])))

\* What the handler answers: the envelope with the code 400 and the Message
\* of the BadRequestError, which is not the text of the error of ReadJSON.
C16_Answer ==
  \A p \in Procs :
    HandlerFailed(reqs[p]) => AnswersJSON(reqs[p].w, StatusBadRequest, "Invalid JSON data")

\* The handler has failed on the payload {"abc"}.
C16_Witness ==
  \E p \in Procs :
    /\ HandlerFailed(reqs[p]) /\ reqs[p].body = "{\"abc\"}"
    /\ reqs[p].err.s = "invalid JSON data: invalid character '}' after object key, on input: {\"abc\"}"
    /\ AnswersJSON(reqs[p].w, StatusBadRequest, "Invalid JSON data")

\* ------------------------------------------------------------------------
\* The responders WriteJSONCode, WriteJSON and WriteError, call by call
\* ------------------------------------------------------------------------

\* The calls of w.WriteHeader among the calls on the sink.
StatusWrites(calls) == {i \in 1..Len(calls) : calls[i].op = "WriteHeader"}

\* The calls of w.Write among the calls on the sink.
BodyWrites(calls) == {i \in 1..Len(calls) : calls[i].op = "Write"}

\* The calls that set a header.
HeaderSets(calls) == {i \in 1..Len(calls) : calls[i].op = "Header.Set"}

\* The document is the value, written with one member or element per line
\* and two spaces for each level.
IndentedBy2(js, data) ==
  /\ Decode(js) = [ok |-> TRUE, v |-> data, rest |-> ""]
  /\ \A i \in 1..Len(js) :
       Ch(js, i) = "\n" =>
         \E n \in 0..3 : /\ SubSeq(js, i + 1, i + 2 * n) = Repeat(" ", 2 * n)
                         /\ Ch(js, i + 2 * n + 1) \notin {" ", ""}
  /\ data = Person => js = "{\n  \"name\": \"Oliver\"\n}"

\* C17: WriteJSONCode(w, code, data) sets the header Content-Type to
\* application/json, then writes the status code, once, then writes the
\* data as JSON indented by two spaces (the bytes the encoder returns, for
\* data it encodes), then writes one newline, and calls
\* the sink for nothing else: the header is part of the response and no
\* byte of the body precedes the status.  WriteJSON does so with the
\* status 200.
C17_Order ==
  call.fn \in {"WriteJSONCode", "WriteJSON"} =>
    /\ Len(w.Calls) = 4
    /\ w.Calls[1] = [op |-> "Header.Set", name |-> "Content-Type", value |-> "application/json"]
    /\ w.Calls[2] = [op |-> "WriteHeader", code |-> call.code]
    /\ w.Calls[3].op = "Write"
    /\ MarshalError(call.arg) = Nil => IndentedBy2(w.Calls[3].b, call.arg)
    /\ w.Calls[4] = [op |-> "Write", b |-> "\n"]
    /\ StatusWrites(w.Calls) = {2}
    /\ \A i \in BodyWrites(w.Calls) : i > 2
    /\ \A i \in HeaderSets(w.Calls) : i < 2
    /\ w.Code = call.code
    /\ w.snapHeader = [k \in {"Content-Type"} |-> "application/json"]
    /\ w.Body = w.Calls[3].b \o "\n"
    /\ call.fn = "WriteJSON" => call.code = 200

\* WriteJSONCode has written the person of the example with the status 201.
C17_Witness ==
  /\ call.fn = "WriteJSONCode"
  /\ call.code = 201
  /\ call.arg = Person
  /\ w.Body = "{\n  \"name\": \"Oliver\"\n}\n"
  /\ pc = "done"

\* The text form of a value: the text of an error, the string itself for a
\* string.
TextOf(e) == IF IsError(e) THEN Error(e) ELSE e.s

\* C18: WriteError(w, e) writes the status resolved for e, before any byte
\* of the body, and then the body "<h1>" text "</h1>", where text is the
\* text form of e; it sets no header and writes nothing else.
C18_Heading ==
  call.fn = "WriteError" =>
    /\ w.Calls = <<[op |-> "WriteHeader", code |-> Resolved(call.arg)],
                   [op |-> "Write", b |-> "<h1>" \o TextOf(call.arg) \o "</h1>"]>>
    /\ w.Code = Resolved(call.arg)
    /\ w.Body = "<h1>" \o TextOf(call.arg) \o "</h1>"
    /\ w.HeaderMap = EmptyMap
    /\ w.snapHeader = EmptyMap

\* WriteError has answered for a string, which is no error.
C18_Witness ==
  /\ call.fn = "WriteError"
  /\ call.arg = GoString("something happened")
  /\ w.Code = 500
  /\ w.Body = "<h1>something happened</h1>"
  /\ pc = "done"

\* ------------------------------------------------------------------------
\* BearerToken and QueryStringArray
\* ------------------------------------------------------------------------

\* The value of the Authorization header of the request, "" without one.
Authorization(req) ==
  IF "Authorization" \in DOMAIN req.Header THEN req.Header["Authorization"][1] ELSE ""

\* The value starts with "bearer " in any case and goes on after it.
StartsWithBearer(auth) ==
  /\ Len(auth) > 7
  /\ \A i \in 1..7 : Ch(auth, i) \in {Ch("bearer ", i), Ch("BEARER ", i)}

\* C19: BearerToken(r) returns (token, true) exactly when the Authorization
\* header starts with "bearer ", in any case, and at least one character
\* follows; the token is the rest of the value after these 7 characters,
\* unchanged.  In every other case it returns ("", false).
C19_BearerToken ==
  call.fn = "BearerToken" =>
    /\ out.ret = IF StartsWithBearer(Authorization(r))
                 THEN <<SubSeq(Authorization(r), 8, Len(Authorization(r))), TRUE>>
                 ELSE <<"", FALSE>>
    /\ r = EmptyRequest => out.ret = <<"", FALSE>>
    /\ r = AuthRequest(<<"Basic xxx">>) => out.ret = <<"", FALSE>>
    /\ r = AuthRequest(<<"Bearer ">>) => out.ret = <<"", FALSE>>
    /\ r = AuthRequest(<<"Bearer secret">>) => out.ret = <<"secret", TRUE>>

\* The token of a header in capitals has been returned with its own case.
C19_Witness ==
  /\ call.fn = "BearerToken"
  /\ r = AuthRequest(<<"BEARER SeCrEt">>)
  /\ out.ret = <<"SeCrEt", TRUE>>
  /\ pc = "done"

\* strings.Join(a, sep)
RECURSIVE Join(_, _)
Join(a, sep) ==
  IF Len(a) = 0 THEN ""
  ELSE IF Len(a) = 1 THEN a[1]
  ELSE a[1] \o sep \o Join(Tail(a), sep)

\* The number of commas in the text.
Commas(s) == Cardinality({i \in 1..Len(s) : Ch(s, i) = ","})

\* C20: QueryStringArray(r, key, def) returns, for a value of key that is
\* not empty, the parts of the value between its commas, in order: one part
\* more than there are commas, none with a comma in it, empty parts kept and
\* nothing trimmed, so that the parts joined with "," are the value.  When
\* the key is absent or its value is empty it returns def.
C20_QueryStringArray ==
  call.fn = "QueryStringArray" =>
    /\ ~out.panicked
    /\ CallRaw = "" => out.ret = call.defaultValue
    /\ CallRaw # "" =>
         /\ Join(out.ret, ",") = CallRaw
         /\ Len(out.ret) = Commas(CallRaw) + 1
         /\ \A i \in 1..Len(out.ret) : Commas(out.ret[i]) = 0
    /\ CallRaw = "a,b,c" => out.ret = <<"a", "b", "c">>
    /\ CallRaw = "Rob" => out.ret = <<"Rob">>
    /\ CallRaw = ", x," => out.ret = <<"", " x", "">>

\* The call has split a value with an empty part.
C20_Witness ==
  /\ call.fn = "QueryStringArray"
  /\ CallRaw = "a,,b"
  /\ out.ret = <<"a", "", "b">>

\* The call has returned the default it was given, the key being absent.
C20_Default ==
  /\ call.fn = "QueryStringArray"
  /\ r = EmptyRequest
  /\ call.defaultValue = <<"x", "y">>
  /\ out.ret = <<"x", "y">>

\* ------------------------------------------------------------------------
\* The values the accessors accept
\* ------------------------------------------------------------------------

\* The raw texts that are base-10 integers of 32 bits, and of 64 bits.
Decimal32 ==
  {"0", "-0", "1", "7", "42", "-7", "2147483647", "-2147483648", "+5", "007"}

Decimal64 ==
  Decimal32 \cup {"2147483648", "-2147483649", "4294967297", "9223372036854775807"}

\* The number a text of Decimal64 stands for, in its shortest form.
NumberOf(raw) ==
  CASE raw = "+5" -> "5"
    [] raw = "007" -> "7"
    [] raw = "-0" -> "0"
    [] OTHER -> raw

\* The accessors of the integer types, and the texts each width accepts.
IntegerTypes == {"int", "int32", "int64"}

FitsWidth(type) == IF type = "int32" THEN Decimal32 ELSE Decimal64

\* The panic of a Must accessor for a value that does not parse.
RaisesInvalid(o, key) ==
  /\ o.panicked
  /\ Error(o.err) = "Invalid parameter " \o Quote(key)
  /\ HTTPCode(o.err) = 400

\* C21: an integer accessor accepts only base-10 integers that fit its
\* width: any other text that is not empty, such as one beyond the 32 bit
\* range for an Int32 accessor or beyond the 64 bit range for an Int64
\* accessor, is a parse failure (a Must accessor panics with the invalid
\* parameter error, a default-mode accessor returns the default), and a text
\* that fits is returned as the number it stands for, never wrapped around
\* or truncated.
C21_IntegerWidth ==
  (call.fn \in Accessors /\ ResultType(call.fn) \in IntegerTypes /\ CallRaw # "") =>
    IF CallRaw \in FitsWidth(ResultType(call.fn))
    THEN ~out.panicked /\ out.ret = NumberOf(CallRaw)
    ELSE IF call.fn \in MustAccessors THEN RaisesInvalid(out, call.key)
    ELSE ~out.panicked /\ out.ret = call.defaultValue

\* A Must accessor of 32 bits has refused a number whose low 32 bits are 1.
C21_Witness ==
  /\ call.fn = "MustQueryInt32"
  /\ CallRaw = "4294967297"
  /\ out.panicked
  /\ pc = "panicking"

\* The text is a number without a unit: an optional sign, then digits with
\* at most one point among them.
BareNumber(raw) ==
  LET body == IF Len(raw) > 0 /\ Ch(raw, 1) \in {"+", "-"} THEN Drop(raw, 1) ELSE raw
  IN  /\ \E i \in 1..Len(body) : IsDigit(Ch(body, i))
      /\ \A i \in 1..Len(body) : IsDigit(Ch(body, i)) \/ Ch(body, i) = "."
      /\ Cardinality({i \in 1..Len(body) : Ch(body, i) = "."}) <= 1

\* The text is "0" with or without a sign.
BareZero(raw) == raw \in {"0", "+0", "-0"}

DurationAccessors == {fn \in Accessors : ResultType(fn) = "duration"}

\* The call has treated the value as one that does not parse.
ParseFailure ==
  IF call.fn \in MustAccessors THEN RaisesInvalid(out, call.key)
  ELSE ~out.panicked /\ out.ret = Fallback

\* C22: a duration accessor accepts a value made of numbers with units
\* ("1m12s" is 72 seconds) and treats a number without a unit as a parse
\* failure (a Must accessor panics with the invalid parameter error, a
\* default-mode accessor returns the default), except "0", with or without
\* a sign, which is the duration zero.
C22_Duration ==
  (call.fn \in DurationAccessors /\ CallRaw # "") =>
    /\ CallRaw = "1m12s" => ~out.panicked /\ out.ret = [neg |-> FALSE, sec |-> 72, ns |-> 0]
    /\ BareNumber(CallRaw) /\ ~BareZero(CallRaw) => ParseFailure
    /\ BareZero(CallRaw) => ~out.panicked /\ out.ret = ZeroDuration

\* C22 as stated: every number without a unit is a parse failure.
C22_Original ==
  (call.fn \in DurationAccessors /\ CallRaw # "") =>
    /\ CallRaw = "1m12s" => ~out.panicked /\ out.ret = [neg |-> FALSE, sec |-> 72, ns |-> 0]
    /\ BareNumber(CallRaw) => ParseFailure

\* A Must accessor has returned the duration zero for the text "0".
C22_Witness ==
  /\ call.fn = "MustFormDuration"
  /\ CallRaw = "0"
  /\ ~out.panicked
  /\ out.ret = ZeroDuration

\* ------------------------------------------------------------------------
\* Calls repeated, and the two modes compared
\* ------------------------------------------------------------------------

\* The values an accessor of each source reads for the key.
Readings(req, key) ==
  <<FormValue(req, key), QueryGet(req, key),
    IF MapFound(muxVars(req), key) THEN <<MapValue(muxVars(req), key)>> ELSE <<>>>>

\* A step leaves the parameter sources of the request as they are: the
\* values of the body, the query string and the routing variables, and what
\* is read from them for every key.
SourcesKept ==
  /\ r'.PostForm = r.PostForm
  /\ r'.Query = r.Query
  /\ r'.Vars = r.Vars
  /\ \A key \in Keys : Readings(r', key) = Readings(r, key)

\* C23: a default-mode accessor called twice with the same request, key and
\* default gives the same result both times, and no call of an accessor
\* changes the parameter sources of the request.
C23_Idempotent ==
  /\ [](prev # NoResult => out = prev)
  /\ [][SourcesKept]_vars

\* FormString has been called twice on a request that has the key in the
\* body and in the query string; the form was parsed by the first call.
C23_Witness ==
  /\ call.fn = "FormString"
  /\ prev # NoResult
  /\ prev.ret = "Rob"
  /\ out.ret = "Rob"
  /\ r.Form # <<>>
  /\ r.Query # EmptyMap

\* ------------------------------------------------------------------------
\* Causes: Unwrap and errors.Is on the error kinds
\* ------------------------------------------------------------------------

\* The body has handed over a value of one of the struct kinds.
StructKind(e) == e.kind \in Kinds \cup {"Error"}

WrapsCause ==
  /\ call.fn \in {"panic", "WriteError", "WriteJSONError"}
  /\ StructKind(call.arg)

\* C24: for every kind K, K{Err: e}.Unwrap() is e, nil when there is none,
\* and errors.Is(K{Message: m, Err: e}, e) is true for every message m when
\* e is a comparable value such as io.EOF or a parameter error.  When e is a
\* value of a struct kind of the package, which is not comparable,
\* errors.Is does not find it.
C24_Unwrap ==
  WrapsCause =>
    /\ Unwrap(call.arg) = call.arg.Err
    /\ call.arg.Err.kind \in {"errorString", "MissingParameterError"}
         => ErrorsIs(call.arg, call.arg.Err)
    /\ StructKind(call.arg.Err) => ~ErrorsIs(call.arg, call.arg.Err)

\* C24 as stated: errors.Is finds every cause.
C24_Original ==
  WrapsCause =>
    /\ Unwrap(call.arg) = call.arg.Err
    /\ call.arg.Err # Nil => ErrorsIs(call.arg, call.arg.Err)

\* A TeapotError with a message that wraps io.EOF has been handed over.
C24_Witness ==
  /\ call.fn = "panic"
  /\ call.arg.kind = "TeapotError"
  /\ call.arg.Message # ""
  /\ call.arg.Err = ErrorString("EOF")
  /\ ErrorsIs(call.arg, ErrorString("EOF"))

\* ------------------------------------------------------------------------
\* EqualJSON
\* ------------------------------------------------------------------------

\* The text is one JSON document.
WellFormed(s) == Decode(s).ok /\ SkipSpace(Decode(s).rest) = ""

\* The position lies in a string literal of the text: an odd number of
\* quotes precedes it (the texts have no escaped quote).
InLiteral(s, i) == Cardinality({j \in 1..(i - 1) : Ch(s, j) = "\""}) % 2 = 1

\* The text without the white space outside its string literals, and
\* without any white space.
RECURSIVE Without(_, _, _)
Without(s, i, all) ==
  IF i > Len(s) THEN ""
  ELSE (IF IsSpace(Ch(s, i)) /\ (all \/ ~InLiteral(s, i)) THEN "" ELSE Ch(s, i))
         \o Without(s, i + 1, all)

\* C25: EqualJSON(a, b) is true exactly when a and b both have the length 0,
\* or both are JSON documents that are equal once the white space between
\* their tokens is removed; white space in a string literal counts, and bytes
\* that are not JSON are equal to nothing.  Two objects with the same
\* members in another order are not equal.
C25_EqualJSON ==
  call.fn = "EqualJSON" =>
    /\ out.ret = (\/ Len(call.a) = 0 /\ Len(call.b) = 0
                  \/ /\ WellFormed(call.a) /\ WellFormed(call.b)
                     /\ Without(call.a, 1, FALSE) = Without(call.b, 1, FALSE))
    /\ (call.a = "{\"a\":1,\"b\":2}" /\ call.b = "{\n\t\"a\":1,\n\t\"b\":2\n}\n") => out.ret
    /\ (call.a = "{\"a\":1,\"b\":2}     " /\ call.b = "{\"a\":1,\"b\":2}") => out.ret
    /\ (call.a = "{\"a\":1,\"b\":2}" /\ call.b = "{\"b\":2,\"a\":1}") => ~out.ret

\* C25 as stated: true exactly when both have the length 0 or the two are
\* equal once all white space is removed.
C25_Original ==
  call.fn = "EqualJSON" =>
    out.ret = (\/ Len(call.a) = 0 /\ Len(call.b) = 0
               \/ Without(call.a, 1, TRUE) = Without(call.b, 1, TRUE))

\* Two objects that differ by a space in a string have been compared.
C25_Witness ==
  /\ call.fn = "EqualJSON"
  /\ call.a = "{\"a\":\"x y\"}"
  /\ call.b = "{\"a\":\"xy\"}"
  /\ ~out.ret

\* ------------------------------------------------------------------------
\* The buffers of ReadJSON
\* ------------------------------------------------------------------------

\* The call of ReadJSON of this goroutine has ended: it has returned or
\* its panic has left it.
ReadJSONEnded(q) == q.pc \notin {"idle", "get", "decode", "deferred"}

\* The goroutines that hold the buffer.
Holders(b) == {p \in Procs : reqs[p].buf = b}

\* C26: whatever the way a call of ReadJSON ends (nil, an error, or a panic
\* during decoding), its buffer is reset and back in the pool when the call
\* has ended: a call that has ended holds no buffer, every buffer is either
\* in the pool or held by exactly one call in flight, every buffer in the
\* pool is empty, and a call that has not read yet has an empty buffer.
C26_Released ==
  /\ \A p \in Procs : ReadJSONEnded(reqs[p]) => ~Holds(reqs[p])
  /\ \A b \in 1..Len(bufs) :
       IF b \in pool THEN Holders(b) = {} /\ Len(bufs[b]) = 0
       ELSE Cardinality(Holders(b)) = 1
  /\ \A p \in Procs : Holds(reqs[p]) /\ reqs[p].pos = 0 => bufs[reqs[p].buf] = ""

\* A call has ended in a panic after it read bytes, and the other call, of
\* another body, has taken the only buffer from the pool.
C26_Witness ==
  \E p, o \in Procs :
    /\ reqs[o].pc = "panicked" /\ reqs[o].pos > 0
    /\ reqs[p].pc = "decode" /\ reqs[p].pos = 0 /\ reqs[p].body # reqs[o].body
    /\ Len(bufs) = 1 /\ reqs[p].buf = 1

\* A handler has answered the panic of a Read after its buffer went back.
C26_Recovered ==
  \E p \in Procs :
    /\ reqs[p].fn = "MustReadJSON" /\ reqs[p].pc = "done" /\ reqs[p].panic # Nil
    /\ reqs[p].w.Code = StatusInternalServerError
    /\ pool # {}

\* ------------------------------------------------------------------------
\* The two modes of an accessor
\* ------------------------------------------------------------------------

\* The Must accessors that take no default.
PlainMust == MustAccessors \ DefaultAccessors

\* The accessor of the same source and type that takes a default: the
\* name without "Must", with "WithDefault" for the time and the duration of
\* a query string.
DefaultModeOf(fn) ==
  IF fn \in {"MustQueryTime", "MustQueryDuration"} THEN Drop(fn, 4) \o "WithDefault"
  ELSE Drop(fn, 4)

DefaultMode == {DefaultModeOf(fn) : fn \in PlainMust}

MustOf(fn) == CHOOSE m \in PlainMust : DefaultModeOf(m) = fn

\* C27: for every source and type, when the Must accessor returns v for a
\* request and a key, the accessor with a default returns v whatever its
\* default; and the accessor with a default returns its default or what the
\* Must accessor returns, and does not panic.
C27_SameValue ==
  /\ DefaultMode \subseteq DefaultAccessors
  /\ (call.fn \in PlainMust /\ ~out.panicked) =>
       \A d \in DefaultsOf(DefaultModeOf(call.fn)) :
         Invoke(DefaultModeOf(call.fn), r, call.key, call.layout, d) = out
  /\ (call.fn \in DefaultMode) =>
       /\ ~out.panicked
       /\ \/ out.ret = call.defaultValue
          \/ Invoke(MustOf(call.fn), r, call.key, call.layout, "") = out

\* MustParamsInt32 has returned 42, which is what ParamsInt32 returns for the
\* default 0.
C27_Witness ==
  /\ call.fn = "MustParamsInt32" /\ ~out.panicked /\ out.ret = "42"
  /\ ParamsInt32(r, call.key, "0") = out

\* An accessor with a default has returned a parsed value that is not its
\* default.
C27_Parsed ==
  /\ call.fn = "QueryDurationWithDefault" /\ out.ret # call.defaultValue
  /\ MustQueryDuration(r, call.key) = out

\* ------------------------------------------------------------------------
\* errors.Is on the parameter errors
\* ------------------------------------------------------------------------

\* The targets: a value of every status-specific kind with every message,
\* list of details and cause, and a pointer to each.
Targets == KindErrors \cup {PointerTo(t) : t \in KindErrors}

\* The target is a BadRequestError or a *BadRequestError.
BadRequestTarget(t) == t.kind \in {"BadRequestError", "*BadRequestError"}

\* C28: errors.Is of a MissingParameterError or an InvalidParameterError is
\* true for every target of the type BadRequestError or *BadRequestError,
\* whatever the Message, the Details and the Err of the target, and false
\* for a target of every other status-specific kind.
C28_Is ==
  ParameterCall => \A t \in Targets : ErrorsIs(call.arg, t) <=> BadRequestTarget(t)

\* An InvalidParameterError is a BadRequestError of another message, with
\* details and a cause, is a *BadRequestError, and is no NotFoundError{}.
C28_Witness ==
  /\ ParameterCall
  /\ call.arg.kind = "InvalidParameterError"
  /\ ErrorsIs(call.arg, HTTPError("BadRequestError", "Validation failed",
                                  <<"A has failed", "B is invalid">>, ErrorString("EOF")))
  /\ Error(call.arg) # "Validation failed"
  /\ ErrorsIs(call.arg, PointerTo(HTTPError("BadRequestError", "", <<>>, Nil)))
  /\ ~ErrorsIs(call.arg, HTTPError("NotFoundError", "", <<>>, Nil))

\* ------------------------------------------------------------------------
\* The responders and the chain of Unwrap
\* ------------------------------------------------------------------------

\* The body has called WriteError or WriteJSONError with a value.
ResponderCall == call.fn \in {"WriteError", "WriteJSONError"}

\* The errors of the chain of Unwrap behind the value, the value left out.
RECURSIVE Wraps(_)
Wraps(e) ==
  IF ~HasUnwrap(e) \/ Unwrap(e) = Nil THEN {}
  ELSE {Unwrap(e)} \cup Wraps(Unwrap(e))

\* The value has no HTTPCode method and wraps an error that has one.
WrapsCoder(e) == ~IsHTTPCoder(e) /\ \E c \in Wraps(e) : IsHTTPCoder(c)

\* The status a value has by its own type, and its own details.
OwnCode(e) ==
  CASE e.kind \in Kinds -> DocCode(e.kind)
    [] e.kind = "Error" -> e.Code
    [] e.kind \in {"MissingParameterError", "InvalidParameterError"} -> StatusBadRequest
    [] OTHER -> StatusInternalServerError

\* C29: WriteError and WriteJSONError take the status and the details from
\* the value they are given and not from the errors it wraps: the status
\* is that of the value's own type, 500 for a value without an HTTPCode
\* method; a value without capabilities that wraps a NotFoundError with
\* details is written with the status 500, with its own text and without
\* details.
C29_OwnCapabilities ==
  ResponderCall =>
    /\ w.Code = OwnCode(call.arg)
    /\ WrapsCoder(call.arg) =>
         /\ w.Code = StatusInternalServerError
         /\ call.fn = "WriteError" => w.Body = "<h1>" \o Error(call.arg) \o "</h1>"
         /\ call.fn = "WriteJSONError" =>
              DecodesTo(w.Body, StatusInternalServerError, Error(call.arg), <<>>)

\* WriteJSONError has written an error that wraps a NotFoundError with
\* details: status 500 and no details.
C29_Witness ==
  /\ call.fn = "WriteJSONError"
  /\ WrapsCoder(call.arg)
  /\ Unwrap(call.arg).kind = "NotFoundError"
  /\ Len(ErrorDetails(Unwrap(call.arg))) > 0
  /\ w.Code = StatusInternalServerError
  /\ DecodesTo(w.Body, StatusInternalServerError, "lookup: gone", <<>>)

\* ------------------------------------------------------------------------
\* WriteJSONCode and data that does not serialize
\* ------------------------------------------------------------------------

\* The body has called WriteJSONCode or WriteJSON with data the encoder
\* fails on.
FailedMarshal ==
  /\ call.fn \in {"WriteJSONCode", "WriteJSON"}
  /\ MarshalError(call.arg) # Nil

\* C30: when the data cannot be serialized, WriteJSONCode still sets the
\* Content-Type to application/json and writes the status it was given, and
\* the body is one newline; the call returns, and there is no panic whose
\* payload a hook would answer.
C30_Ignored ==
  FailedMarshal =>
    /\ w.snapHeader = [k \in {"Content-Type"} |-> "application/json"]
    /\ w.Code = call.code
    /\ w.Body = "\n"
    /\ StatusWrites(w.Calls) = {2}
    /\ pc \in {"returning", "done"}
    /\ payload = Nil
    /\ ~propagated

\* WriteJSONCode has been given an object with a channel in it and the
\* status 201, and the handler has ended.
C30_Witness ==
  /\ FailedMarshal
  /\ call.fn = "WriteJSONCode"
  /\ call.arg.t = "obj"
  /\ call.code = StatusCreated
  /\ w.Code = StatusCreated
  /\ w.Body = "\n"
  /\ pc = "done"
====
